---------------------------- MODULE Spec2Model ----------------------------
(***************************************************************************)
(* Model of src/floorparse.py: class FloorParser.                          *)
(*                                                                         *)
(* A FloorParser turns a floor-plan description into a graph               *)
(*     key -> attribute record with a neighbour set ('nbrs').              *)
(* The three front-ends are parse (text), parse_image (one raster image)   *)
(* and parse_image_folder (a folder of per-floor images).  Each call is    *)
(* one action; the call's arguments are drawn in Init.                     *)
(*                                                                         *)
(* Conventions.  Indices of keys are 0-based as in the source; TLA+        *)
(* sequences are 1-based, so grid[i][j] of the source is grid[i+1][j+1]    *)
(* here.  A token is a sequence of one-character strings, so that the      *)
(* portal pattern ^[ZEUP][0-9]+$ is decided character by character.        *)
(* A text is given line by line: a line is either a layer marker           *)
(* ('=== LAYER <name> ===') or a row, a row is its ';'-separated cells,    *)
(* and a cell is its ','-separated non-empty tokens (the empty sequence    *)
(* is a cell that is blank after strip()).                                 *)
(***************************************************************************)
EXTENDS Integers, Sequences, FiniteSets, TLC

VARIABLES
    call,      \* the arguments of the call: [op, ...]
    pc,        \* "ready" before the call, "done" after it
    graph,     \* self.graph
    ret,       \* how the call ended: "none", "return" or the exception raised
    locals,    \* the locals of the finished call that outlive its passes
    held       \* the graph objects earlier calls returned, which the caller holds

vars == <<call, pc, graph, ret, locals, held>>

---------------------------------------------------------------------------
(* Bounds of the enumerated inputs.                                        *)

MaxText == 6        \* size of a text: its lines plus the cells of its rows
MaxPixels == 4      \* pixels of an image
MaxFolderPx == 4    \* pixels of the floor images of a folder, all together

---------------------------------------------------------------------------
(* Tokens and the text inputs.                                             *)

tN == <<"N">>
tP == <<"P">>
tX == <<"X">>
tZ1 == <<"Z", "1">>
tP3 == <<"P", "3">>

\* The non-blank cells a row is made of: a cell with a category and an
\* unknown token, a cell that holds only a portal token, and the cell 'P,P3'.
Cells == { <<tN, tX>>, <<tZ1>>, <<tP, tP3>> }

\* A cell that is empty after strip(), as in 'N;;N' or ';N'.
BlankCell == <<>>

LayerLine == [kind |-> "layer", cells |-> <<>>]

\* The shape of a text is the sequence of the shapes of its lines: -1 for a
\* layer marker, n >= 0 for a row of n cells (blank ones included).  A line
\* counts 1 and each cell 1: the shapes of the texts of size s.
RECURSIVE TextShapes(_)
TextShapes(s) ==
    IF s = 0 THEN { <<>> }
    ELSE UNION { { <<h>> \o t : h \in (IF v = 1 THEN {-1, 0} ELSE {v - 1}),
                                t \in TextShapes(s - v) } : v \in 1..s }

\* The number of cells in the first k lines of a shape.
RECURSIVE CellCount(_, _)
CellCount(shape, k) ==
    IF k = 0 THEN 0
    ELSE CellCount(shape, k - 1) + (IF shape[k] = -1 THEN 0 ELSE shape[k])

\* The text of a shape whose cells are, line after line, those of cells.
TextOf(shape, cells) ==
    [k \in 1..Len(shape) |->
        IF shape[k] = -1 THEN LayerLine
        ELSE [kind |-> "row",
              cells |-> SubSeq(cells, CellCount(shape, k - 1) + 1,
                               CellCount(shape, k))]]

---------------------------------------------------------------------------
(* The raster inputs.                                                      *)

cN == <<191, 227, 240>>     \* the default colour of N
cTD == <<1, 102, 94>>       \* the default colour of TD
cTU == <<53, 151, 143>>     \* the default colour of TU
cWhite == <<255, 255, 255>> \* a colour of no default token

NoMeta == [present |-> FALSE, valid |-> FALSE, obj |-> <<>>]
BadMeta == [present |-> TRUE, valid |-> FALSE, obj |-> <<>>]
MetaOf(obj) == [present |-> TRUE, valid |-> TRUE, obj |-> obj]

ImagesOf(widths, heights, colours, metas) ==
    UNION { [W : {w}, H : {h},
             px : [(0..(w - 1)) \X (0..(h - 1)) -> colours],
             meta : metas] : w \in widths, h \in heights }

ImageMetas ==
    { NoMeta, BadMeta, MetaOf([cell_px |-> 2]), MetaOf([cell_px |-> 3]),
      MetaOf([tile_px |-> 0]) }

\* No override, an override that adds a token, and one that swaps two colours.
Palettes ==
    { <<>>,
      << [tok |-> "X", rgb |-> cWhite] >>,
      << [tok |-> "TD", rgb |-> cTU], [tok |-> "TU", rgb |-> cTD] >> }

\* The images of every shape W x H of at most MaxPixels pixels.
Images ==
    UNION { ImagesOf({wh[1]}, {wh[2]}, {cN, cTD, cWhite}, ImageMetas) :
            wh \in { wh \in (1..MaxPixels) \X (1..MaxPixels) :
                       wh[1] * wh[2] <= MaxPixels } }

Chars(k) == <<"0", "1", "2", "3", "4", "5", "6", "7", "8", "9">>[k + 1]

\* floor<k>.png
FloorName(k) == <<"f", "l", "o", "o", "r", Chars(k), ".", "p", "n", "g">>

FloorMetas == { NoMeta, MetaOf([floor_index |-> 1]) }

FloorColours == { cN, cTD, cTU }

\* The widths of the floor images of a folder, file after file: the
\* sequences of positive widths that add up to s.
RECURSIVE FolderShapes(_)
FolderShapes(s) ==
    IF s = 0 THEN { <<>> }
    ELSE UNION { { <<w>> \o t : t \in FolderShapes(s - w) } : w \in 1..s }

\* The number of pixels in the first k floor images.
RECURSIVE PixelCount(_, _)
PixelCount(widths, k) ==
    IF k = 0 THEN 0 ELSE PixelCount(widths, k - 1) + widths[k]

\* The files that may carry metadata: the floor images of one pixel.
MetaFiles(widths) == { k \in 1..Len(widths) : widths[k] = 1 }

\* The listing of one-row floor images of the given widths whose pixels are,
\* file after file, those of cols; the k-th file is named floor<k>.png.
ListingOf(widths, cols, metas) ==
    [k \in 1..Len(widths) |->
        [name |-> FloorName(k),
         meta |-> IF k \in DOMAIN metas THEN metas[k] ELSE NoMeta,
         W |-> widths[k], H |-> 1,
         px |-> [xy \in (0..(widths[k] - 1)) \X {0} |->
                    cols[PixelCount(widths, k - 1) + xy[1] + 1]]]]

\* The parts of a room line: a word, and a word int() accepts.
Word(txt) == [txt |-> txt, int |-> FALSE, val |-> 0]
IntWord(val) == [txt |-> "int", int |-> TRUE, val |-> val]

\* room_id name r0 c0 r1 c1
RoomLine(rid, name, r0, c0, r1, c1) ==
    [comment |-> FALSE,
     parts |-> << Word(rid), Word(name),
                  IntWord(r0), IntWord(c0), IntWord(r1), IntWord(c1) >>]

\* Room files of floor1: one box; the same box with swapped corners after a
\* line that is too short; a box that reaches beyond the floor after a
\* line with a coordinate that is no integer.
RoomFiles ==
    { 1 :> << RoomLine("R1", "Lobby", 0, 0, 0, 1) >>,
      1 :> << [comment |-> FALSE, parts |-> << Word("R0"), Word("Hall"), IntWord(0) >>],
              RoomLine("R1", "Lobby", 0, 1, 0, 0) >>,
      1 :> << [comment |-> FALSE,
               parts |-> << Word("R0"), Word("Hall"), IntWord(0), Word("x"),
                            IntWord(0), IntWord(0) >>],
              RoomLine("R2", "Yard", 0, 1, 2, 3) >> }

---------------------------------------------------------------------------
(* FloorParser._parse_single_layer                                         *)

Digits == {"0", "1", "2", "3", "4", "5", "6", "7", "8", "9"}

\* Mutant of IsPortalTok: the pattern ^[ZEUP][0-9]*$, which takes a bare
\* letter for a portal token.
IsPortalTokStar(p) ==
    /\ Len(p) >= 1
    /\ p[1] \in {"Z", "E", "U", "P"}
    /\ \A k \in 2..Len(p) : p[k] \in Digits

\* re.match(r'^[ZEUP][0-9]+$', p)
IsPortalTok(p) ==
    /\ Len(p) >= 2
    /\ p[1] \in {"Z", "E", "U", "P"}
    /\ \A k \in 2..Len(p) : p[k] \in Digits

\* The tokens of a cell that stay in parts after the portal loop.
MainTokens(parts) == { parts[n] : n \in { n \in 1..Len(parts) : ~IsPortalTok(parts[n]) } }

\* The portal loop of one cell: one record per matching token, in order.
PortalHits(parts, loc) ==
    LET hits == SelectSeq(parts, IsPortalTok)
    IN  [n \in 1..Len(hits) |-> [pid |-> hits[n], loc |-> loc]]

\* for sq in sqs: ...   acc = [rowattrs, portals]; i = len(grid)
RECURSIVE ParseCells(_, _, _, _, _)
ParseCells(sqs, k, z, i, acc) ==
    IF k > Len(sqs) THEN acc
    ELSE LET parts == sqs[k]
         IN  IF parts = <<>>
             THEN ParseCells(sqs, k + 1, z, i, acc)
             ELSE ParseCells(sqs, k + 1, z, i,
                    [rowattrs |-> Append(acc.rowattrs, MainTokens(parts)),
                     portals  |-> acc.portals
                                    \o PortalHits(parts, <<z, i, Len(acc.rowattrs)>>)])

\* for row in floor.split('\n'): ...   acc = [grid, portals]
RECURSIVE ParseRows(_, _, _, _)
ParseRows(rows, k, z, acc) ==
    IF k > Len(rows) THEN acc
    ELSE LET r == ParseCells(rows[k].cells, 1, z, Len(acc.grid),
                             [rowattrs |-> <<>>, portals |-> acc.portals])
         IN  ParseRows(rows, k + 1, z,
                [grid    |-> IF r.rowattrs # <<>> THEN Append(acc.grid, r.rowattrs)
                                                  ELSE acc.grid,
                 portals |-> r.portals])

\* Returns [grid, portals]; portals is the list of occurrences in the order
\* they were appended, so portals[p] of the source is the subsequence with pid p.
ParseSingleLayer(floor, z) ==
    ParseRows(floor, 1, z, [grid |-> <<>>, portals |-> <<>>])

---------------------------------------------------------------------------
(* FloorParser.parse                                                       *)

\* re.split on the layer markers: <<before, block1, ..., blockK>>.  (The
\* captured names, m[1], m[3], ..., are read but never used by parse.)
RECURSIVE SplitLayers(_, _, _)
SplitLayers(floor, k, m) ==
    IF k > Len(floor) THEN m
    ELSE IF floor[k].kind = "layer"
         THEN SplitLayers(floor, k + 1, Append(m, <<>>))
         ELSE SplitLayers(floor, k + 1,
                          [m EXCEPT ![Len(m)] = Append(@, floor[k])])

RECURSIVE Concat(_, _)
Concat(seqs, k) ==
    IF k > Len(seqs) THEN <<>> ELSE seqs[k] \o Concat(seqs, k + 1)

\* graph_key = (z,i,j) if multilayer else (i,j)
GraphKey(multilayer, z, i, j) == IF multilayer THEN <<z, i, j>> ELSE <<i, j>>

\* Mutant of Nbrs4: the four steps are taken without the bounds test.
Nbrs4Unbounded(i, j, R, C) ==
    { <<i - 1, j>>, <<i + 1, j>>, <<i, j - 1>>, <<i, j + 1>> }

\* for di,dj in ((-1,0),(1,0),(0,-1),(0,1)): if 0 <= i2 < R and 0 <= j2 < C
Nbrs4(i, j, R, C) ==
    { d \in { <<i - 1, j>>, <<i + 1, j>>, <<i, j - 1>>, <<i, j + 1>> } :
        /\ 0 <= d[1] /\ d[1] < R
        /\ 0 <= d[2] /\ d[2] < C }

\* for att in 'WSBFNP': graph[graph_key][att] = int(att in attrs)
TextCell(attrs, nbrs) ==
    [W |-> IF <<"W">> \in attrs THEN 1 ELSE 0,
     S |-> IF <<"S">> \in attrs THEN 1 ELSE 0,
     B |-> IF <<"B">> \in attrs THEN 1 ELSE 0,
     F |-> IF <<"F">> \in attrs THEN 1 ELSE 0,
     N |-> IF <<"N">> \in attrs THEN 1 ELSE 0,
     P |-> IF <<"P">> \in attrs THEN 1 ELSE 0,
     nbrs |-> nbrs]

\* R, C = len(grid), len(grid[0]) of layer z (0-based); an empty grid is skipped.
LayerR(graphs, z) == Len(graphs[z + 1])
LayerC(graphs, z) == IF graphs[z + 1] = <<>> THEN 0 ELSE Len(graphs[z + 1][1])

\* grid[i][j] raises IndexError when row i has fewer than C cells.
RaisesIndexError(graphs) ==
    \E z \in 0..(Len(graphs) - 1) :
        \E i \in 0..(LayerR(graphs, z) - 1) :
            Len(graphs[z + 1][i + 1]) < LayerC(graphs, z)

GridCells(graphs) ==
    { zij \in UNION { { <<z, i, j>> : i \in 0..(LayerR(graphs, z) - 1),
                                      j \in 0..(LayerC(graphs, z) - 1) } :
                      z \in 0..(Len(graphs) - 1) } : TRUE }

\* The first pass of parse: one cell per (z,i,j) of each layer's R x C
\* extent, with the six flags and the in-bounds 4-neighbours.
EmitLayers(graphs, multilayer) ==
    LET cells == GridCells(graphs)
        keys  == { GraphKey(multilayer, c[1], c[2], c[3]) : c \in cells }
        zOf(k) == IF multilayer THEN k[1] ELSE 0
        iOf(k) == IF multilayer THEN k[2] ELSE k[1]
        jOf(k) == IF multilayer THEN k[3] ELSE k[2]
    IN  [k \in keys |->
            TextCell(graphs[zOf(k) + 1][iOf(k) + 1][jOf(k) + 1],
                     { GraphKey(multilayer, zOf(k), d[1], d[2]) :
                         d \in Nbrs4(iOf(k), jOf(k),
                                     LayerR(graphs, zOf(k)), LayerC(graphs, zOf(k))) })]

\* Mutant of PortalEdges: links every two occurrences, whatever their ids.
PortalEdgesAnyId(all_portals) ==
    LET occ == { all_portals[n] : n \in 1..Len(all_portals) }
    IN  { <<p[1].loc, p[2].loc>> :
            p \in { p \in occ \X occ : p[1].loc # p[2].loc } }

\* for pid, locs in all_portals.items(): for a in locs: for b in locs:
\*     if a == b: continue
\* The directed edges <<a, b>> the portal pass adds.
PortalEdges(all_portals) ==
    LET occ == { all_portals[n] : n \in 1..Len(all_portals) }
    IN  { <<p[1].loc, p[2].loc>> :
            p \in { p \in occ \X occ : /\ p[1].pid = p[2].pid
                                       /\ p[1].loc # p[2].loc } }

\* Mutant of AddEdges: a linked cell's neighbour set is assigned, not added to.
AddEdgesOverwrite(g, edges) ==
    LET out(a) == { e[2] : e \in { e \in edges : e[1] = a } }
    IN  [k \in DOMAIN g \cup { e[1] : e \in edges } |->
            IF k \in DOMAIN g
            THEN [g[k] EXCEPT !.nbrs = IF out(k) = {} THEN @ ELSE out(k)]
            ELSE [nbrs |-> out(k)]]

\* graph[a]['nbrs'].add(b) for every edge <<a, b>>, on a
\* defaultdict(lambda: {'nbrs': set()}): a missing key a is created with
\* nothing but its neighbour set.
AddEdges(g, edges) ==
    LET out(a) == { e[2] : e \in { e \in edges : e[1] = a } }
    IN  [k \in DOMAIN g \cup { e[1] : e \in edges } |->
            IF k \in DOMAIN g
            THEN [g[k] EXCEPT !.nbrs = @ \cup out(k)]
            ELSE [nbrs |-> out(k)]]

\* The lines from "Build graph dict" on, given the locals of the first half.
BuildGraph(graphs, all_portals, multilayer) ==
    IF RaisesIndexError(graphs)
    THEN [ret |-> "IndexError", graph |-> <<>>,
          graphs |-> graphs, all_portals |-> all_portals, multilayer |-> multilayer]
    ELSE [ret |-> "return",
          graph |-> AddEdges(EmitLayers(graphs, multilayer), PortalEdges(all_portals)),
          graphs |-> graphs, all_portals |-> all_portals, multilayer |-> multilayer]

\* Mutant of CollectLayers: a block without cells is dropped, so the layers
\* after it move down by one index.
CollectLayersSkipEmpty(layers, multilayer) ==
    LET kept == SelectSeq(layers, LAMBDA l : l.grid # <<>>)
    IN  BuildGraph([n \in 1..Len(kept) |-> kept[n].grid],
                   Concat([n \in 1..Len(layers) |-> layers[n].portals], 1),
                   multilayer)

\* graphs.append(grid); all_portals[k].extend(v), layer after layer
CollectLayers(layers, multilayer) ==
    BuildGraph([n \in 1..Len(layers) |-> layers[n].grid],
               Concat([n \in 1..Len(layers) |-> layers[n].portals], 1),
               multilayer)

\* m = re.split(...); multilayer = len(m) >= 3; one _parse_single_layer per
\* block, z = (idx-1)//2, or one for the whole text.
ParseSplit(floor, m) ==
    IF Len(m) >= 2
    THEN CollectLayers([n \in 1..(Len(m) - 1) |-> ParseSingleLayer(m[n + 1], n - 1)], TRUE)
    ELSE CollectLayers(<< ParseSingleLayer(floor, 0) >>, FALSE)

\* The whole of parse: [ret, graph, graphs, all_portals, multilayer].
ParseText(floor) == ParseSplit(floor, SplitLayers(floor, 1, << <<>> >>))

---------------------------------------------------------------------------
(* Raster decoding, shared by parse_image and parse_image_folder.          *)
(*                                                                         *)
(* An image is [W, H, px, meta]: px maps <<x, y>> (0 <= x < W, 0 <= y < H) *)
(* to an <<r, g, b>> triple, and meta is the image's text chunk:           *)
(* [present, valid, obj] tells whether 'map_meta' is there, whether it is  *)
(* JSON that decodes without an exception, and the decoded object.         *)

\* DEFAULT_PAL, in insertion order.
DEFAULT_PAL ==
    << [tok |-> "W",  rgb |-> <<0, 0, 0>>],
       [tok |-> "N",  rgb |-> <<191, 227, 240>>],
       [tok |-> "S",  rgb |-> <<92, 184, 92>>],
       [tok |-> "B",  rgb |-> <<33, 59, 143>>],
       [tok |-> "F",  rgb |-> <<217, 83, 79>>],
       [tok |-> "P",  rgb |-> <<91, 192, 222>>],
       [tok |-> "SD", rgb |-> <<127, 59, 8>>],
       [tok |-> "SU", rgb |-> <<179, 88, 6>>],
       [tok |-> "TD", rgb |-> <<1, 102, 94>>],
       [tok |-> "TU", rgb |-> <<53, 151, 143>>] >>

\* Mutant of PalUpdate: the overrides are appended to the default entries,
\* which stay as they are.
PalUpdateAppend(pal, palette, k) == pal \o palette

\* pal = dict(DEFAULT_PAL); pal.update(palette): a known token keeps its
\* place and takes the new colour, a new token goes to the end.
RECURSIVE PalUpdate(_, _, _)
PalUpdate(pal, palette, k) ==
    IF k > Len(palette) THEN pal
    ELSE LET e == palette[k]
         IN  IF \E n \in 1..Len(pal) : pal[n].tok = e.tok
             THEN PalUpdate([n \in 1..Len(pal) |->
                                IF pal[n].tok = e.tok THEN e ELSE pal[n]],
                            palette, k + 1)
             ELSE PalUpdate(Append(pal, e), palette, k + 1)

EffectivePal(palette) == PalUpdate(DEFAULT_PAL, palette, 1)

Max(a, b) == IF a >= b THEN a ELSE b

RECURSIVE Gcd(_, _)
Gcd(a, b) == IF b = 0 THEN a ELSE Gcd(b, a % b)

\* cell_px as read from the metadata: 1 unless map_meta gives cell_px or,
\* failing that, tile_px; any exception while decoding gives 1.
MetaCellPx(meta) ==
    IF ~meta.present \/ ~meta.valid THEN 1
    ELSE IF "cell_px" \in DOMAIN meta.obj THEN Max(1, meta.obj["cell_px"])
    ELSE IF "tile_px" \in DOMAIN meta.obj THEN Max(1, meta.obj["tile_px"])
    ELSE 1

\* Mutant of CellPx: the tile size of the metadata is used as it is.
CellPxAsGiven(img) == MetaCellPx(img.meta)

\* if (W % cell_px != 0) or (H % cell_px != 0): cell_px = gcd(W, H) or 1
CellPx(img) ==
    LET c == MetaCellPx(img.meta)
        g == Gcd(img.W, img.H)
    IN  IF img.W % c # 0 \/ img.H % c # 0
        THEN (IF g = 0 THEN 1 ELSE g)
        ELSE c

RECURSIVE SumChannel(_, _, _)
SumChannel(px, block, ch) ==
    IF block = {} THEN 0
    ELSE LET p == CHOOSE p \in block : TRUE
         IN  px[p][ch] + SumChannel(px, block \ {p}, ch)

\* block_avg(i, j): the channel-wise floor average of the tile's pixels.
BlockAvg(img, cell_px, i, j) ==
    LET block == { <<j * cell_px + dj, i * cell_px + di>> :
                     di \in 0..(cell_px - 1), dj \in 0..(cell_px - 1) }
        cnt == cell_px * cell_px
    IN  << SumChannel(img.px, block, 1) \div cnt,
           SumChannel(img.px, block, 2) \div cnt,
           SumChannel(img.px, block, 3) \div cnt >>

Dist2(a, b) ==
    (a[1] - b[1]) * (a[1] - b[1]) + (a[2] - b[2]) * (a[2] - b[2])
        + (a[3] - b[3]) * (a[3] - b[3])

\* bestd = 10**12 in the source: above every squared RGB distance.  The
\* model uses the largest power of ten TLC's integers hold.
BestdInit == 1000000000

\* Mutant of NearestFrom: d <= bestd, so the last of several nearest wins.
RECURSIVE NearestFromLast(_, _, _, _, _)
NearestFromLast(pal, rgb, k, best, bestd) ==
    IF k > Len(pal) THEN best
    ELSE IF Dist2(rgb, pal[k].rgb) <= bestd
         THEN NearestFromLast(pal, rgb, k + 1, pal[k].tok, Dist2(rgb, pal[k].rgb))
         ELSE NearestFromLast(pal, rgb, k + 1, best, bestd)

\* for t,(Rr,Gg,Bb) in pal.items(): if d < bestd: bestd, best = d, t
RECURSIVE NearestFrom(_, _, _, _, _)
NearestFrom(pal, rgb, k, best, bestd) ==
    IF k > Len(pal) THEN best
    ELSE IF Dist2(rgb, pal[k].rgb) < bestd
         THEN NearestFrom(pal, rgb, k + 1, pal[k].tok, Dist2(rgb, pal[k].rgb))
         ELSE NearestFrom(pal, rgb, k + 1, best, bestd)

NearestToken(pal, rgb) == NearestFrom(pal, rgb, 1, "N", BestdInit)

\* R, C = H//cell_px, W//cell_px; grid[i][j] = nearest_token(block_avg(i,j))
TokenGridWith(img, pal, cell_px) ==
    [i \in 1..(img.H \div cell_px) |->
        [j \in 1..(img.W \div cell_px) |->
            NearestToken(pal, BlockAvg(img, cell_px, i - 1, j - 1))]]

TokenGrid(img, pal) == TokenGridWith(img, pal, CellPx(img))

\* for att in "WSBFNP": attrs[att] = int(att == tok)
\* for att in ("SD","SU","TD","TU"): attrs[att] = int(att == tok)
ImageCell(tok, nbrs) ==
    [W  |-> IF tok = "W"  THEN 1 ELSE 0,
     S  |-> IF tok = "S"  THEN 1 ELSE 0,
     B  |-> IF tok = "B"  THEN 1 ELSE 0,
     F  |-> IF tok = "F"  THEN 1 ELSE 0,
     N  |-> IF tok = "N"  THEN 1 ELSE 0,
     P  |-> IF tok = "P"  THEN 1 ELSE 0,
     SD |-> IF tok = "SD" THEN 1 ELSE 0,
     SU |-> IF tok = "SU" THEN 1 ELSE 0,
     TD |-> IF tok = "TD" THEN 1 ELSE 0,
     TU |-> IF tok = "TU" THEN 1 ELSE 0,
     nbrs |-> nbrs]

---------------------------------------------------------------------------
(* FloorParser.parse_image                                                 *)

ImageGraph(grid) ==
    LET R == Len(grid)
        C == Len(grid[1])
    IN  [k \in (0..(R - 1)) \X (0..(C - 1)) |->
            ImageCell(grid[k[1] + 1][k[2] + 1], Nbrs4(k[1], k[2], R, C))]

\* A path Image.open cannot read as an image.
Unreadable == [unreadable |-> TRUE]

\* The whole of parse_image: [ret, graph].  Image.open raises on a path it
\* cannot read (an OSError such as FileNotFoundError or UnidentifiedImageError).
ParseImageFile(img, palette) ==
    IF img = Unreadable
    THEN [ret |-> "OSError", graph |-> <<>>]
    ELSE [ret |-> "return",
          graph |-> ImageGraph(TokenGrid(img, EffectivePal(palette)))]

---------------------------------------------------------------------------
(* FloorParser.parse_image_folder                                          *)
(*                                                                         *)
(* The folder is its directory listing, a sequence of files                *)
(* [name, meta, W, H, px] in the order os.listdir returns them (a name is  *)
(* a sequence of characters), and its room files: rooms[n] holds the lines *)
(* of floor<n>_rooms.txt for the n in DOMAIN rooms.  A room line is        *)
(* [comment, parts]; a part is [txt, int, val]: its text, whether int()    *)
(* accepts it, and the value int() gives.                                  *)

Lower(c) ==
    CASE c = "A" -> "a" [] c = "B" -> "b" [] c = "C" -> "c" [] c = "D" -> "d"
      [] c = "E" -> "e" [] c = "F" -> "f" [] c = "G" -> "g" [] c = "H" -> "h"
      [] c = "I" -> "i" [] c = "J" -> "j" [] c = "K" -> "k" [] c = "L" -> "l"
      [] c = "M" -> "m" [] c = "N" -> "n" [] c = "O" -> "o" [] c = "P" -> "p"
      [] c = "Q" -> "q" [] c = "R" -> "r" [] c = "S" -> "s" [] c = "T" -> "t"
      [] c = "U" -> "u" [] c = "V" -> "v" [] c = "W" -> "w" [] c = "X" -> "x"
      [] c = "Y" -> "y" [] c = "Z" -> "z" [] OTHER -> c

LowerSeq(name) == [n \in 1..Len(name) |-> Lower(name[n])]

\* Mutant of IsPng: every file of the folder is taken for a floor image.
IsPngAny(file) == TRUE

\* name.lower().endswith('.png')
IsPng(file) ==
    /\ Len(file.name) >= 4
    /\ SubSeq(LowerSeq(file.name), Len(file.name) - 3, Len(file.name))
           = <<".", "p", "n", "g">>

\* re.search(r'floor(\\d+)', base, flags=re.I): in the raw string, \\d+ is a
\* literal backslash followed by one or more letters d, not a digit class.
FloorPatternFound(name) ==
    \E q \in 1..(Len(name) - 6) :
        /\ SubSeq(LowerSeq(name), q, q + 4) = <<"f", "l", "o", "o", "r">>
        /\ name[q + 5] = "\\"
        /\ Lower(name[q + 6]) = "d"

\* floor_index_for(path): [raises, idx].  With decodable map_meta the index
\* is int(m.get('floor_index', 0)); otherwise the filename fallback, where
\* int(m.group(1)) of a matched '\d...' raises ValueError, and no match gives 0.
FloorIndexFor(file) ==
    IF file.meta.present /\ file.meta.valid
    THEN [raises |-> FALSE,
          idx |-> IF "floor_index" \in DOMAIN file.meta.obj
                  THEN file.meta.obj["floor_index"] ELSE 0]
    ELSE IF FloorPatternFound(file.name)
         THEN [raises |-> TRUE, idx |-> 0]
         ELSE [raises |-> FALSE, idx |-> 0]

\* Mutant of SortedFiles: the files stay in the order of the listing.
SortedFilesListed(files, k, sorted) == files

\* sorted(files, key=floor_index_for): a stable sort.
RECURSIVE SortedFiles(_, _, _)
SortedFiles(files, k, sorted) ==
    IF k > Len(files) THEN sorted
    ELSE LET key == FloorIndexFor(files[k]).idx
             n == Cardinality({ m \in 1..Len(sorted) :
                                  FloorIndexFor(sorted[m]).idx <= key })
         IN  SortedFiles(files, k + 1,
                         SubSeq(sorted, 1, n) \o <<files[k]>>
                             \o SubSeq(sorted, n + 1, Len(sorted)))

\* The second pass: one cell per (z,i,j) of each floor, with the ten flags
\* and the in-bounds 4-neighbours of its floor.  floors[z + 1] is floor z.
FloorCells(floors) ==
    UNION { { <<z, i, j>> : i \in 0..(Len(floors[z + 1]) - 1),
                            j \in 0..(Len(floors[z + 1][1]) - 1) } :
            z \in { d - 1 : d \in DOMAIN floors } }

EmitFloors(floors) ==
    [k \in FloorCells(floors) |->
        ImageCell(floors[k[1] + 1][k[2] + 1][k[3] + 1],
                  { <<k[1], d[1], d[2]>> :
                      d \in Nbrs4(k[2], k[3], Len(floors[k[1] + 1]),
                                  Len(floors[k[1] + 1][1])) })]

\* Mutant of LinkTarget: the directions are confused, TD links to the floor
\* above and TU to the floor below.
LinkTargetSwapped(floors, k) ==
    LET tok == floors[k[1] + 1][k[2] + 1][k[3] + 1]
    IN  IF tok = "TD" /\ k[1] + 2 \in DOMAIN floors
        THEN { <<k[1] + 1, k[2], k[3]>> }
        ELSE IF tok = "TU" /\ k[1] \in DOMAIN floors
        THEN { <<k[1] - 1, k[2], k[3]>> }
        ELSE {}

\* Mutant of LinkTarget: links without asking whether the target floor exists.
LinkTargetAnyFloor(floors, k) ==
    LET tok == floors[k[1] + 1][k[2] + 1][k[3] + 1]
    IN  IF tok = "TD" THEN { <<k[1] - 1, k[2], k[3]>> }
        ELSE IF tok = "TU" THEN { <<k[1] + 1, k[2], k[3]>> }
        ELSE {}

\* The cross-floor link of cell k, if its token asks for one and the target
\* floor exists: tok == 'TD' and z-1 in floors, tok == 'TU' and z+1 in floors
\* (floors[z + 1] here is the grid of floor z).
LinkTarget(floors, k) ==
    LET tok == floors[k[1] + 1][k[2] + 1][k[3] + 1]
    IN  IF tok = "TD" /\ k[1] \in DOMAIN floors
        THEN { <<k[1] - 1, k[2], k[3]>> }
        ELSE IF tok = "TU" /\ k[1] + 2 \in DOMAIN floors
        THEN { <<k[1] + 1, k[2], k[3]>> }
        ELSE {}

\* Mutant of LinkEdges: the edge back from the target is forgotten.
LinkEdgesOneWay(key, tgt) == { <<key, tgt>> }

\* graph[key]['nbrs'].add(tgt); graph[tgt]['nbrs'].add(key)
LinkEdges(key, tgt) == { <<key, tgt>>, <<tgt, key>> }

VerticalEdges(floors) ==
    UNION { UNION { LinkEdges(k, tgt) : tgt \in LinkTarget(floors, k) } :
            k \in FloorCells(floors) }

\* _load_rooms_for_floor: the well-formed records of a room file, in order.
RoomLineOk(line) ==
    /\ ~line.comment
    /\ Len(line.parts) >= 6
    /\ \A n \in 3..6 : line.parts[n].int

\* Mutant of LoadRooms: reading the file stops at the first line that is
\* neither a comment nor a well-formed record.
LoadRoomsUntilBad(lines) ==
    LET bad   == { n \in 1..Len(lines) : ~lines[n].comment /\ ~RoomLineOk(lines[n]) }
        upto  == IF bad = {} THEN Len(lines)
                 ELSE (CHOOSE n \in bad : \A m \in bad : n <= m) - 1
        ok    == SelectSeq(SubSeq(lines, 1, upto), RoomLineOk)
    IN  [n \in 1..Len(ok) |->
            [rid |-> ok[n].parts[1].txt, name |-> ok[n].parts[2].txt,
             r0 |-> ok[n].parts[3].val, c0 |-> ok[n].parts[4].val,
             r1 |-> ok[n].parts[5].val, c1 |-> ok[n].parts[6].val]]

LoadRooms(lines) ==
    LET ok == SelectSeq(lines, RoomLineOk)
    IN  [n \in 1..Len(ok) |->
            [rid |-> ok[n].parts[1].txt, name |-> ok[n].parts[2].txt,
             r0 |-> ok[n].parts[3].val, c0 |-> ok[n].parts[4].val,
             r1 |-> ok[n].parts[5].val, c1 |-> ok[n].parts[6].val]]

Min(a, b) == IF a <= b THEN a ELSE b

\* Mutant of ApplyRoom: the corners are taken as given, not sorted.
ApplyRoomAsGiven(g, z, room) ==
    [k \in DOMAIN g |->
        IF /\ k[1] = z
           /\ room.r0 <= k[2] /\ k[2] <= room.r1
           /\ room.c0 <= k[3] /\ k[3] <= room.c1
        THEN [room |-> room.rid, room_name |-> room.name] @@ g[k]
        ELSE g[k]]

\* rr0, rr1 = sorted((r0, r1)); cc0, cc1 = sorted((c0, c1)); every key
\* (z,i,j) of the box that is in graph gets room and room_name.
ApplyRoom(g, z, room) ==
    [k \in DOMAIN g |->
        IF /\ k[1] = z
           /\ Min(room.r0, room.r1) <= k[2] /\ k[2] <= Max(room.r0, room.r1)
           /\ Min(room.c0, room.c1) <= k[3] /\ k[3] <= Max(room.c0, room.c1)
        THEN [room |-> room.rid, room_name |-> room.name] @@ g[k]
        ELSE g[k]]

RECURSIVE ApplyRooms(_, _, _, _)
ApplyRooms(g, z, rooms, n) ==
    IF n > Len(rooms) THEN g
    ELSE ApplyRooms(ApplyRoom(g, z, rooms[n]), z, rooms, n + 1)

\* for z in floors.keys(): rooms = _load_rooms_for_floor(folder, z)
RECURSIVE OverlayRooms(_, _, _, _)
OverlayRooms(g, roomfiles, z, Z) ==
    IF z >= Z THEN g
    ELSE OverlayRooms(
            IF z + 1 \in DOMAIN roomfiles
            THEN ApplyRooms(g, z, LoadRooms(roomfiles[z + 1]), 1)
            ELSE g,
            roomfiles, z + 1, Z)

\* The passes after the first, given the decoded floors.
BuildFloors(files_sorted, floors, roomfiles) ==
    [ret |-> "return",
     graph |-> OverlayRooms(AddEdges(EmitFloors(floors), VerticalEdges(floors)),
                            roomfiles, 0, Len(files_sorted)),
     files_sorted |-> files_sorted, floors |-> floors]

\* Mutant of DecodeFloors: the floors are classified with the default
\* palette, whatever override was passed.
DecodeFloorsDefaultPal(files_sorted, pal, roomfiles) ==
    BuildFloors(files_sorted,
                [z \in 1..Len(files_sorted) |-> TokenGrid(files_sorted[z], DEFAULT_PAL)],
                roomfiles)

\* The first pass: floors[z] = grid, the tokens of floor z's tiles.
DecodeFloors(files_sorted, pal, roomfiles) ==
    BuildFloors(files_sorted,
                [z \in 1..Len(files_sorted) |-> TokenGrid(files_sorted[z], pal)],
                roomfiles)

\* The whole of parse_image_folder: [ret, graph, files_sorted, floors].
ParseFolderFiles(files, roomfiles, palette) ==
    IF files = <<>>
    THEN [ret |-> "FileNotFoundError", graph |-> <<>>,
          files_sorted |-> <<>>, floors |-> <<>>]
    ELSE IF \E k \in 1..Len(files) : FloorIndexFor(files[k]).raises
    THEN [ret |-> "ValueError", graph |-> <<>>,
          files_sorted |-> <<>>, floors |-> <<>>]
    ELSE DecodeFloors(SortedFiles(files, 1, <<>>), EffectivePal(palette), roomfiles)

ParseFolder(listing, roomfiles, palette) ==
    ParseFolderFiles(SelectSeq(listing, IsPng), roomfiles, palette)

---------------------------------------------------------------------------
(* The state machine.                                                      *)

NoLocals == [op |-> "none"]

\* held maps the arguments of a call that returned to the dict it returned:
\* [returned, now, times], the dict as the first such call returned it, that
\* dict as it is now, and how often a call with these arguments has returned
\* (counted up to 2).
NoHeld == <<>>

\* Mutant of HeldAfter: the call builds its graph in the dict the parser
\* already holds, so every dict returned before shows the new graph.
HeldAfterShared(h, c, r) ==
    IF r.ret # "return" THEN h
    ELSE [k \in DOMAIN h \cup {c} |->
            IF k \in DOMAIN h
            THEN [returned |-> h[k].returned, now |-> r.graph,
                  times |-> IF k = c THEN 2 ELSE h[k].times]
            ELSE [returned |-> r.graph, now |-> r.graph, times |-> 1]]

\* graph = defaultdict(...); ...; self.graph = dict(graph.items()); return
\* self.graph: a call that returns hands out a new dict and touches no dict
\* returned before.
HeldAfter(h, c, r) ==
    IF r.ret # "return" THEN h
    ELSE [k \in DOMAIN h \cup {c} |->
            IF k \in DOMAIN h
            THEN [h[k] EXCEPT !.times = IF k = c THEN 2 ELSE @]
            ELSE [returned |-> r.graph, now |-> r.graph, times |-> 1]]

Init ==
    /\ \/ \E shape \in UNION { TextShapes(n) : n \in 0..MaxText } :
              \E cells \in [1..CellCount(shape, Len(shape)) -> Cells \cup {BlankCell}] :
                  call = [op |-> "parse", floor |-> TextOf(shape, cells)]
       \/ call \in [op : {"parse_image"}, img : Images, palette : Palettes]
       \/ \E widths \in UNION { FolderShapes(n) : n \in 0..MaxFolderPx } :
              \E cols \in [1..PixelCount(widths, Len(widths)) -> FloorColours] :
                  \E metas \in [MetaFiles(widths) -> FloorMetas] :
                      call = [op |-> "parse_image_folder",
                              listing |-> ListingOf(widths, cols, metas),
                              rooms |-> <<>>, palette |-> <<>>]
       \/ \E w \in 1..MaxFolderPx :
              \E cols \in [1..w -> FloorColours] :
                  \E rooms \in RoomFiles \cup {<<>>} : \E palette \in Palettes :
                      call = [op |-> "parse_image_folder",
                              listing |-> ListingOf(<<w>>, cols, <<>>),
                              rooms |-> rooms, palette |-> palette]
    /\ pc = "ready"
    /\ graph = <<>>
    /\ ret = "none"
    /\ locals = NoLocals
    /\ held = NoHeld

\* Mutant of Parse: self.graph is assigned before the graph is built, so a
\* call that raises leaves the empty graph behind.
ParseStoresEarly ==
    /\ pc = "ready"
    /\ call.op = "parse"
    /\ \E r \in {ParseText(call.floor)} :
           /\ ret' = r.ret
           /\ graph' = r.graph
           /\ locals' = [op |-> "parse", graphs |-> r.graphs,
                         all_portals |-> r.all_portals, multilayer |-> r.multilayer]
           /\ held' = HeldAfter(held, call, r)
    /\ pc' = "done"
    /\ UNCHANGED call

\* Mutant of Parse: the graph is built onto the dict the parser holds from
\* the call before instead of a new one.
ParseOntoStored ==
    /\ pc = "ready" /\ call.op = "parse"
    /\ \E r \in {ParseText(call.floor)} :
           /\ ret' = r.ret
           /\ graph' = IF r.ret = "return"
                        THEN [k \in DOMAIN graph \cup DOMAIN r.graph |->
                                 IF k \in DOMAIN r.graph THEN r.graph[k] ELSE graph[k]]
                        ELSE graph
           /\ locals' = [op |-> "parse", graphs |-> r.graphs,
                         all_portals |-> r.all_portals, multilayer |-> r.multilayer]
           /\ held' = HeldAfter(held, call, r)
    /\ pc' = "done" /\ UNCHANGED call

\* FloorParser.parse(floor): self.graph is assigned only on the last line.
Parse ==
    /\ pc = "ready"
    /\ call.op = "parse"
    /\ \E r \in {ParseText(call.floor)} :
           /\ ret' = r.ret
           /\ graph' = IF r.ret = "return" THEN r.graph ELSE graph
           /\ locals' = [op |-> "parse", graphs |-> r.graphs,
                         all_portals |-> r.all_portals, multilayer |-> r.multilayer]
           /\ held' = HeldAfter(held, call, r)
    /\ pc' = "done"
    /\ UNCHANGED call

\* FloorParser.parse_image(path, palette)
ParseImage ==
    /\ pc = "ready"
    /\ call.op = "parse_image"
    /\ \E r \in {ParseImageFile(call.img, call.palette)} :
           /\ ret' = r.ret
           /\ graph' = IF r.ret = "return" THEN r.graph ELSE graph
           /\ locals' = [op |-> "parse_image"]
           /\ held' = HeldAfter(held, call, r)
    /\ pc' = "done"
    /\ UNCHANGED call

\* FloorParser.parse_image_folder(folder, palette)
ParseImageFolder ==
    /\ pc = "ready"
    /\ call.op = "parse_image_folder"
    /\ \E r \in {ParseFolder(call.listing, call.rooms, call.palette)} :
           /\ ret' = r.ret
           /\ graph' = IF r.ret = "return" THEN r.graph ELSE graph
           /\ locals' = [op |-> "parse_image_folder",
                         files_sorted |-> r.files_sorted, floors |-> r.floors]
           /\ held' = HeldAfter(held, call, r)
    /\ pc' = "done"
    /\ UNCHANGED call

Next == Parse \/ ParseImage \/ ParseImageFolder

Spec == Init /\ [][Next]_vars

---------------------------------------------------------------------------
(* What the claims speak about, read off the input and the finished call.  *)

Done(op) == pc = "done" /\ call.op = op

Returned(op) == Done(op) /\ ret = "return"

\* A line that is not blank after strip(): it has at least one cell slot.
NonBlankLine(line) == line.kind = "row" /\ line.cells # <<>>

NonEmptyCells(line) == SelectSeq(line.cells, LAMBDA c : c # BlankCell)

HasLayerMarker(floor) == \E k \in 1..Len(floor) : floor[k].kind = "layer"

\* The in-bounds 4-directional neighbours of (i,j) in an R x C grid.
InBounds4(i, j, R, C) ==
    { k \in (0..(R - 1)) \X (0..(C - 1)) :
        \/ k[1] = i /\ (k[2] = j + 1 \/ k[2] = j - 1)
        \/ k[2] = j /\ (k[1] = i + 1 \/ k[1] = i - 1) }

\* The recorded occurrences of portal tokens, as a set.
Occurrences == { locals.all_portals[n] : n \in 1..Len(locals.all_portals) }

\* The graph key of the grid cell at location (z,i,j) of the parsed text.
CellKey(loc) == GraphKey(HasLayerMarker(call.floor), loc[1], loc[2], loc[3])

---------------------------------------------------------------------------
(* C1: for a single-layer text (no layer marker) whose R non-blank rows    *)
(* each hold C non-empty cells, parse returns a graph whose keys are       *)
(* exactly the (i,j) with 0<=i<R, 0<=j<C, and each cell's neighbour set is *)
(* exactly its in-bounds 4-directional neighbours.                         *)
C1_GridKeysAndNeighbours ==
    LET floor == call.floor
        rows  == SelectSeq(floor, NonBlankLine)
        R     == Len(rows)
        C     == IF R = 0 THEN 0 ELSE Len(NonEmptyCells(rows[1]))
    IN  ( /\ Done("parse")
          /\ ~HasLayerMarker(floor)
          /\ \A k \in 1..R : Len(NonEmptyCells(rows[k])) = C )
        => /\ ret = "return"
           /\ DOMAIN graph = IF C = 0 THEN {} ELSE (0..(R - 1)) \X (0..(C - 1))
           /\ \A k \in DOMAIN graph : graph[k].nbrs = InBounds4(k[1], k[2], R, C)

(* C3: for every portal id that occurs at k distinct cells of a text, each *)
(* of those cells has every one of the other k-1 cells in its neighbour    *)
(* set after parse (a full mesh between the graph cells carrying the id).  *)
C3_PortalFullMesh ==
    Returned("parse") =>
        \A o1 \in Occurrences : \A o2 \in Occurrences :
            (o1.pid = o2.pid /\ o1.loc # o2.loc)
            => /\ CellKey(o1.loc) \in DOMAIN graph
               /\ CellKey(o2.loc) \in graph[CellKey(o1.loc)].nbrs

(* C6: all keys of one graph returned by parse have the same shape:        *)
(* 2 components when the text has no layer marker, 3 when it has one.      *)
C6_UniformKeyShape ==
    Returned("parse") =>
        \A k \in DOMAIN graph :
            Len(k) = IF HasLayerMarker(call.floor) THEN 3 ELSE 2

(* C8: parse on a text with no non-blank row (the empty string, or only    *)
(* blank lines) signals an EmptyInput error instead of returning a graph.  *)
C8_EmptyInputSignalled ==
    ( /\ Done("parse")
      /\ \A k \in 1..Len(call.floor) :
            call.floor[k].kind = "row" /\ call.floor[k].cells = <<>> )
    => ret = "EmptyInput"

(* C9: parse does not reject ragged input: for a layer whose rows have     *)
(* uneven numbers of cells, parse returns a graph without raising.         *)
C9_RaggedAccepted ==
    ( /\ Done("parse")
      /\ \E z \in 1..Len(locals.graphs) :
            \E i \in 1..Len(locals.graphs[z]) :
                Len(locals.graphs[z][i]) # Len(locals.graphs[z][1]) )
    => ret = "return"

(* C2: every key of a returned graph maps to a record that carries an      *)
(* explicit flag for every token of its format's vocabulary (W,S,B,F,N,P   *)
(* for text, and also SD,SU,TD,TU for raster) and a neighbour set.         *)
C2_AllFlagsPresent ==
    (pc = "done" /\ ret = "return") =>
        \A k \in DOMAIN graph :
            ( {"nbrs", "W", "S", "B", "F", "N", "P"}
                \cup (IF call.op = "parse" THEN {} ELSE {"SD", "SU", "TD", "TU"}) )
            \subseteq DOMAIN graph[k]

---------------------------------------------------------------------------
\* Two keys of the same layer that are one step apart.
Adjacent4(a, b) ==
    /\ Len(a) = Len(b)
    /\ Len(a) = 3 => a[1] = b[1]
    /\ LET ai == a[Len(a) - 1]  aj == a[Len(a)]
           bi == b[Len(b) - 1]  bj == b[Len(b)]
       IN  \/ ai = bi /\ (aj = bj + 1 \/ bj = aj + 1)
           \/ aj = bj /\ (ai = bi + 1 \/ bi = ai + 1)

\* The location (z,i,j) a key stands for.
KeyLoc(k) == IF Len(k) = 2 THEN <<0, k[1], k[2]>> ELSE k

SharePortalId(a, b) ==
    \E o1 \in Occurrences : \E o2 \in Occurrences :
        o1.pid = o2.pid /\ o1.loc = KeyLoc(a) /\ o2.loc = KeyLoc(b)

(* C4: the portal pass of parse adds an edge a->b only between occurrences *)
(* of one and the same portal id: two cells that are not 4-adjacent in the *)
(* same layer and share no portal id are never neighbours.                 *)
C4_OnlySameIdLinked ==
    Returned("parse") =>
        \A a \in DOMAIN graph : \A b \in graph[a].nbrs :
            Adjacent4(a, b) \/ SharePortalId(a, b)

\* parse returned a graph of a text with occurrences of two portal ids, two
\* cells of one id linked although they are not adjacent.
C4_Witness ==
    /\ Returned("parse")
    /\ \E o1 \in Occurrences : \E o2 \in Occurrences : o1.pid # o2.pid
    /\ \E a \in DOMAIN graph : \E b \in graph[a].nbrs :
          ~Adjacent4(a, b) /\ SharePortalId(a, b)

---------------------------------------------------------------------------
(* C5: in every returned graph the neighbour relation is symmetric: for    *)
(* all keys a and b, b is a neighbour of a iff a is a neighbour of b.      *)
C5_SymmetricNeighbours ==
    (pc = "done" /\ ret = "return") =>
        \A a \in DOMAIN graph : \A b \in DOMAIN graph :
            (b \in graph[a].nbrs) <=> (a \in graph[b].nbrs)

\* parse_image_folder returned a graph with an edge between two floors.
C5_Witness ==
    /\ Returned("parse_image_folder")
    /\ \E a \in DOMAIN graph : \E b \in graph[a].nbrs : b[1] # a[1]

---------------------------------------------------------------------------
\* The pattern "one of Z, E, U, P followed by digits", read off the token.
PortalPattern(tok) ==
    /\ Head(tok) \in {"Z", "E", "U", "P"}
    /\ Tail(tok) # <<>>
    /\ \A n \in 1..Len(Tail(tok)) : Tail(tok)[n] \in Digits

\* The blocks _parse_single_layer is called on; block n is layer n - 1.
LayerBlocks ==
    LET m == SplitLayers(call.floor, 1, << <<>> >>)
    IN  IF Len(m) >= 2 THEN Tail(m) ELSE <<call.floor>>

\* The non-blank cells of the text: <<layer, line of the block, cell slot>>.
TextCells ==
    { c \in UNION { UNION { { <<z, k, s>> : s \in 1..Len(LayerBlocks[z][k].cells) } :
                            k \in 1..Len(LayerBlocks[z]) } :
                    z \in 1..Len(LayerBlocks) } :
        LayerBlocks[c[1]][c[2]].cells[c[3]] # BlankCell }

TokensAt(c) == LayerBlocks[c[1]][c[2]].cells[c[3]]

\* (layer, row index, column index) of a cell: rows without a cell and
\* blank cells are not counted.
LocOf(c) ==
    << c[1] - 1,
       Cardinality({ k \in 1..(c[2] - 1) :
                       NonEmptyCells(LayerBlocks[c[1]][k]) # <<>> }),
       Cardinality({ s \in 1..(c[3] - 1) :
                       LayerBlocks[c[1]][c[2]].cells[s] # BlankCell }) >>

(* C7: in _parse_single_layer every token of a cell that matches           *)
(* ^[ZEUP][0-9]+$ is removed from the cell's main-token set and recorded   *)
(* under its id at (layer, row index, column index) of the cell, and every *)
(* other token (a bare 'P' too) stays in the main-token set; a cell 'P,P3' *)
(* has flag P true and one recorded occurrence of portal P3.               *)
C7_PortalTokensExtracted ==
    Done("parse") =>
        /\ Occurrences =
              { [pid |-> TokensAt(c)[n], loc |-> LocOf(c)] :
                  <<c, n>> \in { cn \in TextCells \X (1..2) :
                                  /\ cn[2] <= Len(TokensAt(cn[1]))
                                  /\ PortalPattern(TokensAt(cn[1])[cn[2]]) } }
        /\ \A c \in TextCells :
              locals.graphs[LocOf(c)[1] + 1][LocOf(c)[2] + 1][LocOf(c)[3] + 1]
                  = { TokensAt(c)[n] :
                        n \in { n \in 1..Len(TokensAt(c)) :
                                  ~PortalPattern(TokensAt(c)[n]) } }
        /\ \A c \in TextCells :
              TokensAt(c) = <<tP, tP3>> =>
                  /\ Cardinality({ n \in 1..Len(locals.all_portals) :
                        locals.all_portals[n] = [pid |-> tP3, loc |-> LocOf(c)] }) = 1
                  /\ ( /\ ret = "return"
                       /\ CellKey(LocOf(c)) \in DOMAIN graph
                       /\ "P" \in DOMAIN graph[CellKey(LocOf(c))] )
                     => graph[CellKey(LocOf(c))].P = 1

\* parse returned a graph of a text in which a cell 'P,P3' follows a blank
\* cell, and the cell is in the graph.
C7_Witness ==
    /\ Returned("parse")
    /\ \E c \in TextCells :
          /\ TokensAt(c) = <<tP, tP3>>
          /\ c[3] > 1
          /\ LayerBlocks[c[1]][c[2]].cells[c[3] - 1] = BlankCell
          /\ CellKey(LocOf(c)) \in DOMAIN graph
          /\ "P" \in DOMAIN graph[CellKey(LocOf(c))]

---------------------------------------------------------------------------
\* The token floor cell k was classified to.
TokOf(k) == locals.floors[k[1] + 1][k[2] + 1][k[3] + 1]

Linked(a, b) ==
    /\ a \in DOMAIN graph /\ b \in DOMAIN graph
    /\ b \in graph[a].nbrs /\ a \in graph[b].nbrs

\* For every TD cell with a floor below and every TU cell with a floor
\* above, the cell and the one at the same (row,col) there are neighbours
\* of each other.
TeleportsLinked ==
    \A k \in FloorCells(locals.floors) :
        /\ (TokOf(k) = "TD" /\ k[1] >= 1)
              => Linked(k, <<k[1] - 1, k[2], k[3]>>)
        /\ (TokOf(k) = "TU" /\ k[1] + 1 < Len(locals.floors))
              => Linked(k, <<k[1] + 1, k[2], k[3]>>)

(* C10, as claimed: in parse_image_folder every TD cell with floor z-1     *)
(* present and every TU cell with floor z+1 present is linked both ways    *)
(* with the cell at the same (row,col) there; a TD cell on the lowest      *)
(* floor and a TU cell on the highest floor get no cross-floor edge.       *)
C10_AsClaimed ==
    Returned("parse_image_folder") =>
        /\ TeleportsLinked
        /\ \A k \in FloorCells(locals.floors) :
              ( \/ TokOf(k) = "TD" /\ k[1] = 0
                \/ TokOf(k) = "TU" /\ k[1] = Len(locals.floors) - 1 )
              => \A b \in graph[k].nbrs : b[1] = k[1]

(* C10, amended: the links are as claimed; a TD cell on the lowest floor   *)
(* gets no edge to a floor below and a TU cell on the highest floor none   *)
(* to a floor above (no key of a floor outside 0..Z-1 exists), and such a  *)
(* cell has a cross-floor neighbour only where the cell at its (row,col)   *)
(* on the adjacent floor is itself TD (above it) or TU (below it).         *)
C10_TeleportLinks ==
    Returned("parse_image_folder") =>
        /\ TeleportsLinked
        /\ \A k \in DOMAIN graph : k[1] \in 0..(Len(locals.floors) - 1)
        /\ \A k \in FloorCells(locals.floors) :
              /\ (TokOf(k) = "TD" /\ k[1] = 0) =>
                    \A b \in graph[k].nbrs :
                        b[1] # k[1] =>
                            /\ b = <<1, k[2], k[3]>>
                            /\ b \in FloorCells(locals.floors)
                            /\ TokOf(b) = "TD"
              /\ (TokOf(k) = "TU" /\ k[1] = Len(locals.floors) - 1) =>
                    \A b \in graph[k].nbrs :
                        b[1] # k[1] =>
                            /\ b = <<k[1] - 1, k[2], k[3]>>
                            /\ b \in FloorCells(locals.floors)
                            /\ TokOf(b) = "TU"

\* A folder of three floors was parsed: a TD cell of the middle floor is
\* linked with the lowest floor, where a TD cell got no edge below, and a
\* TU cell of the middle floor is linked with the highest floor.
C10_Witness ==
    /\ Returned("parse_image_folder")
    /\ Len(locals.floors) = 3
    /\ \E k \in FloorCells(locals.floors) :
          TokOf(k) = "TD" /\ k[1] = 1 /\ Linked(k, <<0, k[2], k[3]>>)
    /\ \E k \in FloorCells(locals.floors) :
          TokOf(k) = "TU" /\ k[1] = 1 /\ Linked(k, <<2, k[2], k[3]>>)
    /\ \E k \in FloorCells(locals.floors) : TokOf(k) = "TD" /\ k[1] = 0

---------------------------------------------------------------------------
(* C11: the key set of a graph returned by parse_image_folder is exactly   *)
(* the union over the floors z of {(z,i,j) : 0<=i<R_z, 0<=j<C_z}, R_z x    *)
(* C_z being floor z's decoded extents: neither the vertical-linkage pass  *)
(* nor the room overlay adds a key, also when floors differ in size.       *)
C11_KeysAreFloorCells ==
    Returned("parse_image_folder") => DOMAIN graph = FloorCells(locals.floors)

---------------------------------------------------------------------------
(* Folders whose files come in any order, with any metadata: the inputs    *)
(* of the claims about the numbering of the floors.                        *)

MaxFiles == 3       \* files of such a folder

\* notes.txt
NoteName == <<"n", "o", "t", "e", "s", ".", "t", "x", "t">>

\* floor\d.png, a name the fallback pattern of floor_index_for matches
SlashName == <<"f", "l", "o", "o", "r", "\\", "d", ".", "p", "n", "g">>

FileNames == { FloorName(1), FloorName(2), FloorName(3), NoteName, SlashName }

\* No metadata, metadata that does not decode, metadata without
\* floor_index, and floor indices with an offset and a gap.
OrderMetas ==
    { NoMeta, BadMeta, MetaOf([cell_px |-> 1]),
      MetaOf([floor_index |-> -1]), MetaOf([floor_index |-> 3]) }

\* The token each file's one pixel shows, so that a floor of the graph
\* tells which file it was decoded from.
FileToken(name) ==
    CASE name = FloorName(1) -> "W"
      [] name = FloorName(2) -> "S"
      [] name = FloorName(3) -> "B"
      [] OTHER -> "F"

DefaultColour(tok) ==
    DEFAULT_PAL[CHOOSE n \in 1..Len(DEFAULT_PAL) : DEFAULT_PAL[n].tok = tok].rgb

\* The listing of one-pixel images with the given names and metadata.
FilesOf(names, metas) ==
    [k \in 1..Len(names) |->
        [name |-> names[k], meta |-> metas[k], W |-> 1, H |-> 1,
         px |-> [xy \in {<<0, 0>>} |-> DefaultColour(FileToken(names[k]))]]]

InitFolder ==
    /\ \E n \in 0..MaxFiles :
          \E names \in { f \in [1..n -> FileNames] :
                           \A a \in 1..n : \A b \in 1..n : f[a] = f[b] => a = b } :
              \E metas \in [1..n -> OrderMetas] :
                  call = [op |-> "parse_image_folder",
                          listing |-> FilesOf(names, metas),
                          rooms |-> <<>>, palette |-> <<>>]
    /\ pc = "ready"
    /\ graph = <<>>
    /\ ret = "none"
    /\ locals = NoLocals
    /\ held = NoHeld

NextFolder == ParseImageFolder

SpecFolder == InitFolder /\ [][NextFolder]_vars

\* The floor images of the listing: every file but notes.txt.
FloorFiles == SelectSeq(call.listing, LAMBDA f : f.name # NoteName)

\* The floor index a file declares in its metadata, if it declares one.
Declares(file) ==
    /\ file.meta.present /\ file.meta.valid
    /\ "floor_index" \in DOMAIN file.meta.obj

\* The floors of the graph that show the file's token.
FinalIndices(file) ==
    { z \in 0..(Len(FloorFiles) - 1) :
        /\ <<z, 0, 0>> \in DOMAIN graph
        /\ FileToken(file.name) \in DOMAIN graph[<<z, 0, 0>>]
        /\ graph[<<z, 0, 0>>][FileToken(file.name)] = 1 }

---------------------------------------------------------------------------
\* The listing holds floor1.png .. floorK.png, each once, in some order,
\* none with metadata.
PlainFloorFiles ==
    /\ Len(call.listing) >= 1
    /\ { call.listing[k].name : k \in 1..Len(call.listing) }
          = { FloorName(n) : n \in 1..Len(call.listing) }
    /\ \A k \in 1..Len(call.listing) : call.listing[k].meta = NoMeta

(* C13: a floor image without floor_index metadata gets its sort index     *)
(* from the digits of its filename: for files floor1.png .. floorK.png     *)
(* without metadata, floorN.png receives final floor index N-1 whatever    *)
(* order the directory listing returns the files in.                       *)
C13_FilenameDigitsOrder ==
    (Done("parse_image_folder") /\ PlainFloorFiles) =>
        /\ ret = "return"
        /\ \A k \in 1..Len(call.listing) :
              \A n \in 1..Len(call.listing) :
                  call.listing[k].name = FloorName(n)
                  => FinalIndices(call.listing[k]) = {n - 1}

---------------------------------------------------------------------------
(* C16: parse_image_folder on a folder that contains no floor image raises *)
(* FileNotFoundError (the NoFloorsFound error) before any floor is decoded *)
(* and returns no graph.                                                   *)
C16_EmptyFolderRaises ==
    (Done("parse_image_folder") /\ FloorFiles = <<>>) =>
        /\ ret = "FileNotFoundError"
        /\ graph = <<>>
        /\ locals.files_sorted = <<>>
        /\ locals.floors = <<>>

\* The call ended on a folder that holds a file, but no floor image.
C16_Witness ==
    /\ Done("parse_image_folder")
    /\ call.listing # <<>>
    /\ FloorFiles = <<>>
    /\ ret = "FileNotFoundError"

---------------------------------------------------------------------------
(* Folders with a room file: the inputs of the claims about the overlay.   *)

MaxRoomLines == 3   \* lines of a room file

\* A floor image floor<k>.png of W x H pixels of one colour, no metadata.
UniformFile(k, W, H, rgb) ==
    [name |-> FloorName(k), meta |-> NoMeta, W |-> W, H |-> H,
     px |-> [xy \in (0..(W - 1)) \X (0..(H - 1)) |-> rgb]]

\* One floor of 5 x 5 cells; and a floor of 1 x 1 under a floor of 1 x 2
\* teleport-down cells.
RoomFolders ==
    { << UniformFile(1, 5, 5, cN) >>,
      << UniformFile(1, 1, 1, cN), UniformFile(2, 2, 1, cTD) >> }

\* The lines of a room file: a comment, a line of three fields, a line with
\* a coordinate that is no integer, a box, a box with its corners swapped,
\* a box that reaches beyond the floor, and one with a negative corner.
RoomLines ==
    { [comment |-> TRUE, parts |-> << Word("#") >>],
      [comment |-> FALSE, parts |-> << Word("R0"), Word("Hall"), IntWord(0) >>],
      [comment |-> FALSE,
       parts |-> << Word("R0"), Word("Hall"), IntWord(0), Word("x"),
                    IntWord(0), IntWord(0) >>],
      RoomLine("R1", "Lobby", 1, 1, 2, 2),
      RoomLine("R2", "Plant", 2, 2, 1, 1),
      RoomLine("R3", "Yard", 0, 1, 7, 1),
      RoomLine("R4", "Shed", -1, 0, 0, 0) }

InitRooms ==
    /\ \E listing \in RoomFolders :
          \E n \in 1..Len(listing) :
              \E m \in 0..MaxRoomLines :
                  \E lines \in [1..m -> RoomLines] :
                      call = [op |-> "parse_image_folder", listing |-> listing,
                              rooms |-> (n :> lines), palette |-> <<>>]
    /\ pc = "ready"
    /\ graph = <<>>
    /\ ret = "none"
    /\ locals = NoLocals
    /\ held = NoHeld

NextRooms == ParseImageFolder

SpecRooms == InitRooms /\ [][NextRooms]_vars

\* The room records of floor z's room file, in file order.
RoomRecords(z) ==
    IF z + 1 \in DOMAIN call.rooms THEN LoadRooms(call.rooms[z + 1]) ELSE <<>>

\* The records of its floor whose box, corners in either order, holds key k.
CoveringRecords(k) ==
    { n \in 1..Len(RoomRecords(k[1])) :
        LET r == RoomRecords(k[1])[n]
        IN  /\ (r.r0 <= k[2] /\ k[2] <= r.r1) \/ (r.r1 <= k[2] /\ k[2] <= r.r0)
            /\ (r.c0 <= k[3] /\ k[3] <= r.c1) \/ (r.c1 <= k[3] /\ k[3] <= r.c0) }

\* The cells that carry a room.
Tagged == { k \in DOMAIN graph : "room" \in DOMAIN graph[k] }

\* A record without its room fields.
Untagged(rec) == [f \in DOMAIN rec \ {"room", "room_name"} |-> rec[f]]

(* C14: for each room record (id, name, r0, c0, r1, c1) of floor z's room  *)
(* file the overlay sets room=id and room_name=name on exactly the cells   *)
(* (z,i,j) of the graph with min(r0,r1)<=i<=max(r0,r1) and                 *)
(* min(c0,c1)<=j<=max(c0,c1), and on no other cell (where boxes overlap    *)
(* the later record stays); nothing else of the graph changes; a box       *)
(* 1,1,2,2 on a 5x5 floor tags exactly 4 cells and so does the same box    *)
(* with swapped corners.                                                   *)
C14_RoomBoxes ==
    Returned("parse_image_folder") =>
        /\ \A k \in DOMAIN graph :
              IF CoveringRecords(k) = {}
              THEN "room" \notin DOMAIN graph[k] /\ "room_name" \notin DOMAIN graph[k]
              ELSE LET last == CHOOSE n \in CoveringRecords(k) :
                                  \A m \in CoveringRecords(k) : m <= n
                   IN  /\ {"room", "room_name"} \subseteq DOMAIN graph[k]
                       /\ graph[k].room = RoomRecords(k[1])[last].rid
                       /\ graph[k].room_name = RoomRecords(k[1])[last].name
        /\ [k \in DOMAIN graph |-> Untagged(graph[k])]
              = ParseFolder(call.listing, <<>>, call.palette).graph
        /\ ( /\ call.listing = << UniformFile(1, 5, 5, cN) >>
             /\ \/ call.rooms = (1 :> << RoomLine("R1", "Lobby", 1, 1, 2, 2) >>)
                \/ call.rooms = (1 :> << RoomLine("R2", "Plant", 2, 2, 1, 1) >>) )
           => Tagged = { <<0, 1, 1>>, <<0, 1, 2>>, <<0, 2, 1>>, <<0, 2, 2>> }

\* A room file of the 5x5 floor was applied whose box 1,1,2,2 was given
\* with swapped corners, after a box that overlaps it.
C14_Witness ==
    /\ Returned("parse_image_folder")
    /\ call.listing = << UniformFile(1, 5, 5, cN) >>
    /\ call.rooms = (1 :> << RoomLine("R3", "Yard", 0, 1, 7, 1),
                             RoomLine("R2", "Plant", 2, 2, 1, 1) >>)
    /\ graph[<<0, 1, 1>>].room = "R2"
    /\ graph[<<0, 4, 1>>].room = "R3"
    /\ Cardinality(Tagged) = 7

---------------------------------------------------------------------------
\* A line with fewer than 6 fields or with a coordinate that is no integer.
Malformed(line) ==
    /\ ~line.comment
    /\ \/ Len(line.parts) < 6
       \/ \E n \in 3..6 : ~line.parts[n].int

WithoutMalformed(roomfiles) ==
    [n \in DOMAIN roomfiles |-> SelectSeq(roomfiles[n], LAMBDA l : ~Malformed(l))]

(* C15: a malformed line of a room file (fewer than 6 fields, or a         *)
(* non-integer coordinate) is skipped without aborting the parse: every    *)
(* well-formed record before and after it is still applied, so the call    *)
(* returns the graph it returns for the file without its malformed lines.  *)
C15_MalformedLineSkipped ==
    Done("parse_image_folder") =>
        /\ ret = "return"
        /\ graph = ParseFolder(call.listing, WithoutMalformed(call.rooms),
                               call.palette).graph

\* A room file was applied in which a malformed line stands between two
\* records, and both records tagged cells.
C15_Witness ==
    /\ Returned("parse_image_folder")
    /\ \E n \in DOMAIN call.rooms :
          /\ Len(call.rooms[n]) = 3
          /\ RoomLineOk(call.rooms[n][1])
          /\ Malformed(call.rooms[n][2])
          /\ RoomLineOk(call.rooms[n][3])
          /\ \E a \in Tagged : graph[a].room = call.rooms[n][1].parts[1].txt
          /\ \E b \in Tagged : graph[b].room = call.rooms[n][3].parts[1].txt
          /\ call.rooms[n][1].parts[1].txt # call.rooms[n][3].parts[1].txt

---------------------------------------------------------------------------
(* Several calls on one FloorParser: the inputs of the claims about what   *)
(* a call leaves of the calls before it.                                   *)

\* 'Z1;Z1', 'N,X;N,X' over 'N,X' (a ragged layer), a text of two layers,
\* a text whose only row stands before the first layer marker, and the
\* empty text.
CallTexts ==
    { TextOf(<<2>>, << <<tZ1>>, <<tZ1>> >>),
      TextOf(<<2, 1>>, << <<tN, tX>>, <<tN, tX>>, <<tN, tX>> >>),
      TextOf(<<-1, 1, -1, 2>>, << <<tZ1>>, <<tP, tP3>>, <<tZ1>> >>),
      TextOf(<<1, -1>>, << <<tN, tX>> >>),
      TextOf(<<1>>, << <<tP, tP3>> >>),
      <<>> }

CallImages ==
    { [W |-> 1, H |-> 1, px |-> [xy \in {<<0, 0>>} |-> cN], meta |-> NoMeta],
      [W |-> 2, H |-> 1, px |-> [xy \in {<<0, 0>>, <<1, 0>>} |-> cTD], meta |-> NoMeta],
      Unreadable }

\* The empty folder, a folder with a name the fallback pattern matches, a
\* folder of one floor and one of two.
CallFolders ==
    { <<>>,
      FilesOf(<< FloorName(1), SlashName >>, << NoMeta, NoMeta >>),
      << UniformFile(1, 1, 1, cN) >>,
      << UniformFile(1, 1, 1, cN), UniformFile(2, 2, 1, cTD) >> }

CallInputs ==
    [op : {"parse"}, floor : CallTexts]
        \cup [op : {"parse_image"}, img : CallImages, palette : Palettes]
        \cup [op : {"parse_image_folder"}, listing : CallFolders,
              rooms : {<<>>}, palette : {<<>>}]

InitCalls ==
    /\ call \in CallInputs
    /\ pc = "ready"
    /\ graph = <<>>
    /\ ret = "none"
    /\ locals = NoLocals
    /\ held = NoHeld

\* The caller makes another call on the same parser.
\* The number of different inputs whose returned graphs the caller holds.
MaxCalls == 2

NewCall ==
    /\ pc = "done"
    /\ call' \in CallInputs
    /\ Cardinality(DOMAIN held) < MaxCalls \/ call' \in DOMAIN held
    /\ pc' = "ready"
    /\ ret' = "none"
    /\ locals' = NoLocals
    /\ UNCHANGED <<graph, held>>

NextCalls == Parse \/ ParseImage \/ ParseImageFolder \/ NewCall

SpecCalls == InitCalls /\ [][NextCalls]_vars

(* C17: when a call to parse, parse_image or parse_image_folder fails with *)
(* an error, no partial graph becomes observable: self.graph is exactly    *)
(* what it was before the failing call, for any sequence of earlier        *)
(* successful and failed calls.                                            *)
C17_NoPartialGraph ==
    [][ (pc = "ready" /\ pc' = "done" /\ ret' # "return") => graph' = graph ]_vars

\* A call failed on a parser that holds the graph of an earlier call.
C17_Witness ==
    /\ pc = "done"
    /\ ret \in {"IndexError", "OSError", "FileNotFoundError", "ValueError"}
    /\ graph # <<>>

---------------------------------------------------------------------------
(* The raster helpers on their own: nearest_token, the classification of a *)
(* tile, and the choice of the tile size.                                  *)

MaxSpread == 1      \* distance, per channel, of a colour from a palette colour
MaxTile == 2        \* side of a one-colour tile, in pixels
MaxSide == 6        \* width and height of an image whose tile size is chosen

\* The palettes of Palettes, an added token with the colour of N, N moved
\* to the colour of TD, and an added token two steps from the colour of W.
RasterPalettes ==
    Palettes \cup { << [tok |-> "X", rgb |-> cN] >>,
                    << [tok |-> "N", rgb |-> cTD] >>,
                    << [tok |-> "X", rgb |-> <<2, 0, 0>>] >> }

PaletteColours ==
    { DEFAULT_PAL[n].rgb : n \in 1..Len(DEFAULT_PAL) } \cup { cWhite, <<2, 0, 0>> }

\* The colours at most MaxSpread away, in each channel, from a palette colour.
NearColours ==
    { rgb \in UNION { { << c[1] + d[1], c[2] + d[2], c[3] + d[3] >> :
                          d \in (-MaxSpread..MaxSpread) \X (-MaxSpread..MaxSpread)
                                    \X (-MaxSpread..MaxSpread) } :
                      c \in PaletteColours } :
        \A ch \in 1..3 : 0 <= rgb[ch] /\ rgb[ch] <= 255 }

\* A tile of one colour: an image of side x side pixels with cell_px = side.
TileImage(side, rgb) ==
    [W |-> side, H |-> side,
     px |-> [xy \in (0..(side - 1)) \X (0..(side - 1)) |-> rgb],
     meta |-> MetaOf([cell_px |-> side])]

\* What map_meta may say about the tile size.
TileMetas ==
    { NoMeta, BadMeta, MetaOf(<<>>), MetaOf([cell_px |-> 2, tile_px |-> 3]) }
        \cup { MetaOf([cell_px |-> v]) : v \in -1..(MaxSide + 1) }
        \cup { MetaOf([tile_px |-> v]) : v \in -1..(MaxSide + 1) }

InitRaster ==
    /\ \/ call \in [op : {"nearest_token"}, rgb : NearColours, palette : RasterPalettes]
       \/ \E side \in 1..MaxTile : \E rgb \in PaletteColours :
              \E palette \in RasterPalettes :
                  call = [op |-> "classify_tile", img |-> TileImage(side, rgb),
                          palette |-> palette]
       \/ call \in [op : {"cell_px"}, W : 1..MaxSide, H : 1..MaxSide, meta : TileMetas]
    /\ pc = "ready"
    /\ graph = <<>>
    /\ ret = "none"
    /\ locals = NoLocals
    /\ held = NoHeld

\* nearest_token(rgb) under pal = DEFAULT_PAL updated with palette
CallNearestToken ==
    /\ pc = "ready"
    /\ call.op = "nearest_token"
    /\ ret' = NearestToken(EffectivePal(call.palette), call.rgb)
    /\ locals' = [op |-> "nearest_token"]
    /\ pc' = "done"
    /\ UNCHANGED <<call, graph, held>>

\* nearest_token(block_avg(0, 0)) of an image, as in the grid comprehension
CallClassifyTile ==
    /\ pc = "ready"
    /\ call.op = "classify_tile"
    /\ ret' = TokenGrid(call.img, EffectivePal(call.palette))[1][1]
    /\ locals' = [op |-> "classify_tile"]
    /\ pc' = "done"
    /\ UNCHANGED <<call, graph, held>>

\* W, H = img.size; cell_px from the metadata or gcd; R, C = H//cell_px, W//cell_px
CallCellPx ==
    /\ pc = "ready"
    /\ call.op = "cell_px"
    /\ \E c \in {CellPx(call)} :
           locals' = [op |-> "cell_px", cell_px |-> c,
                      R |-> call.H \div c, C |-> call.W \div c]
    /\ ret' = "return"
    /\ pc' = "done"
    /\ UNCHANGED <<call, graph, held>>

NextRaster == CallNearestToken \/ CallClassifyTile \/ CallCellPx

SpecRaster == InitRaster /\ [][NextRaster]_vars

---------------------------------------------------------------------------
(* The effective palette as the claims describe it: the default palette    *)
(* updated with the caller's override.                                     *)

DefaultTokens == { DEFAULT_PAL[n].tok : n \in 1..Len(DEFAULT_PAL) }

OverrideTokens(palette) == { palette[n].tok : n \in 1..Len(palette) }

PaletteTokens(palette) == DefaultTokens \cup OverrideTokens(palette)

\* The colour of token t: the override's if it names t, else the default.
ColourOfToken(t, palette) ==
    IF t \in OverrideTokens(palette)
    THEN palette[CHOOSE n \in 1..Len(palette) : palette[n].tok = t].rgb
    ELSE DefaultColour(t)

\* The place of token t in the iteration order of the palette: the default
\* tokens in their order, then the tokens the override adds, in its order.
PlaceOfToken(t, palette) ==
    IF t \in DefaultTokens
    THEN CHOOSE n \in 1..Len(DEFAULT_PAL) : DEFAULT_PAL[n].tok = t
    ELSE Len(DEFAULT_PAL) + (CHOOSE n \in 1..Len(palette) : palette[n].tok = t)

SquaredDistance(a, b) ==
    (a[1] - b[1]) * (a[1] - b[1]) + (a[2] - b[2]) * (a[2] - b[2])
        + (a[3] - b[3]) * (a[3] - b[3])

\* The tokens whose colour is nearest to rgb.
NearestTokens(rgb, palette) ==
    { t \in PaletteTokens(palette) :
        \A u \in PaletteTokens(palette) :
            SquaredDistance(rgb, ColourOfToken(t, palette))
                <= SquaredDistance(rgb, ColourOfToken(u, palette)) }

\* The first of a set of tokens in the iteration order of the palette.
FirstToken(toks, palette) ==
    CHOOSE t \in toks :
        \A u \in toks : PlaceOfToken(t, palette) <= PlaceOfToken(u, palette)

(* C18: nearest_token returns, for every RGB triple, a palette token whose *)
(* colour has the minimum squared Euclidean distance to it, and when       *)
(* several palette entries are at that minimum it returns the one that     *)
(* comes first in palette iteration order.                                 *)
C18_NearestFirstWins ==
    Done("nearest_token") =>
        ret = FirstToken(NearestTokens(call.rgb, call.palette), call.palette)

\* nearest_token was asked for a colour that two tokens are nearest to, at
\* a distance above zero.
C18_Witness ==
    /\ Done("nearest_token")
    /\ Cardinality(NearestTokens(call.rgb, call.palette)) = 2
    /\ SquaredDistance(call.rgb, ColourOfToken(ret, call.palette)) > 0
    /\ ret \in NearestTokens(call.rgb, call.palette)

---------------------------------------------------------------------------
\* The colour all pixels of the tile have.
TileColour == call.img.px[<<0, 0>>]

\* The tokens of the effective palette whose colour the tile has.
TokensOfTile ==
    { t \in PaletteTokens(call.palette) :
        ColourOfToken(t, call.palette) = TileColour }

(* C19, as claimed: for every token t of the effective palette, a tile     *)
(* whose pixels all have exactly t's palette colour is classified as t,    *)
(* for every tile size.                                                    *)
C19_AsClaimed ==
    Done("classify_tile") => \A t \in TokensOfTile : ret = t

(* C19, amended: a tile whose pixels all have exactly the palette colour   *)
(* of a token t is classified, for every tile size, as the first token in  *)
(* palette iteration order that has this colour: as t itself unless the    *)
(* override gives an earlier token the same colour.                        *)
C19_SolidTileFirstToken ==
    (Done("classify_tile") /\ TokensOfTile # {}) =>
        ret = FirstToken(TokensOfTile, call.palette)

\* A tile of 2 x 2 pixels in the colour of a token the override added was
\* classified as that token.
C19_Witness ==
    /\ Done("classify_tile")
    /\ call.img.W = 2
    /\ ret \in OverrideTokens(call.palette) \ DefaultTokens
    /\ ret \in TokensOfTile

---------------------------------------------------------------------------
(* C20: the tile size chosen by parse_image and parse_image_folder is      *)
(* always >= 1 and divides both the image width W and height H, for every  *)
(* W,H >= 1 and every metadata value of cell_px/tile_px (absent, zero,     *)
(* negative, non-dividing); hence the decoded grid has exactly             *)
(* (H/tile) x (W/tile) cells and no pixel is left outside a tile.          *)
C20_TileSizeDivides ==
    Done("cell_px") =>
        /\ locals.cell_px >= 1
        /\ call.W % locals.cell_px = 0
        /\ call.H % locals.cell_px = 0
        /\ locals.R * locals.cell_px = call.H
        /\ locals.C * locals.cell_px = call.W

\* The metadata asked for tiles of 4 pixels on an image of 6 x 3, and the
\* tile size became their greatest common divisor.
C20_Witness ==
    /\ Done("cell_px")
    /\ call.meta = MetaOf([cell_px |-> 4])
    /\ call.W = 6 /\ call.H = 3
    /\ locals.cell_px = 3
    /\ locals.R = 1 /\ locals.C = 2

\* ---------------------------------------------------------------------
\* Determinism of parse (SpecCalls)

\* C21: a parse call that returns, on a text for which a parse call has
\* returned before (on any parser state, with any calls in between), returns
\* a graph equal to the one returned the first time: same keys, and per key
\* the same flags and the same neighbour set.
C21_ParseDeterministic ==
    [][ ( /\ pc = "ready" /\ pc' = "done"
          /\ call.op = "parse" /\ call \in DOMAIN held
          /\ ret' = "return" )
        => graph' = held[call].returned ]_vars

\* A text has been parsed a second time, after a call on another input that
\* returned a different graph.
C21_Witness ==
    /\ Returned("parse")
    /\ call \in DOMAIN held
    /\ held[call].times = 2
    /\ held[call].returned # <<>>
    /\ \E d \in DOMAIN held : d # call /\ held[d].returned # held[call].returned

\* ---------------------------------------------------------------------
\* Independence of the returned graphs (SpecCalls)

\* C28: a graph returned by an earlier call on a parser is not modified by
\* any later parse, parse_image or parse_image_folder call on that parser:
\* every dict the caller holds still has the keys, flags and neighbours it
\* was returned with; later calls only rebind self.graph.
C28_EarlierGraphsUntouched ==
    \A c \in DOMAIN held : held[c].now = held[c].returned

\* The caller holds the graph of an earlier call, and a later call on
\* another input has returned a different graph, to which self.graph is now
\* bound.
C28_Witness ==
    /\ pc = "done" /\ ret = "return"
    /\ call \in DOMAIN held
    /\ graph = held[call].returned
    /\ \E c \in DOMAIN held :
          /\ c # call
          /\ c.op # call.op
          /\ held[c].returned # <<>>
          /\ held[c].returned # graph

\* ---------------------------------------------------------------------
\* Cross-floor edges of parse_image_folder (Spec)

\* Key k of the returned graph carries flag tok.
HasFlag(k, tok) ==
    /\ k \in DOMAIN graph
    /\ tok \in DOMAIN graph[k]
    /\ graph[k][tok] = 1

\* The edges of the returned graph whose ends lie on different floors.
CrossFloorEdges ==
    { e \in UNION { { <<k, n>> : n \in graph[k].nbrs } : k \in DOMAIN graph } :
        e[1][1] # e[2][1] }

\* C24: in a graph returned by parse_image_folder every edge between
\* different floors joins two keys with the same (row, col) whose floor
\* indices differ by exactly 1, and the upper end is classified TD or the
\* lower end is classified TU; nothing is linked two or more floors away.
C24_CrossFloorEdges ==
    Returned("parse_image_folder") =>
        \A e \in CrossFloorEdges :
            LET up == IF e[1][1] > e[2][1] THEN e[1] ELSE e[2]
                lo == IF e[1][1] > e[2][1] THEN e[2] ELSE e[1]
            IN  /\ up[2] = lo[2] /\ up[3] = lo[3]
                /\ up[1] = lo[1] + 1
                /\ HasFlag(up, "TD") \/ HasFlag(lo, "TU")

\* Three floors, the top one linked down from a TD cell, and the middle
\* floor's cell below it not linked on to the bottom floor.
C24_Witness ==
    /\ Returned("parse_image_folder")
    /\ Len(locals.floors) = 3
    /\ HasFlag(<<2, 0, 0>>, "TD")
    /\ <<<<2, 0, 0>>, <<1, 0, 0>>>> \in CrossFloorEdges
    /\ <<<<1, 0, 0>>, <<2, 0, 0>>>> \in CrossFloorEdges
    /\ HasFlag(<<1, 0, 0>>, "N")
    /\ <<0, 0, 0>> \in DOMAIN graph
    /\ <<0, 0, 0>> \notin graph[<<1, 0, 0>>].nbrs

\* ---------------------------------------------------------------------
\* The passes after the first only add (Spec)

\* The graph as the first pass of the finished call emitted it: flags and
\* same-layer neighbours, before portals, vertical links and rooms.
EmittedGraph ==
    IF call.op = "parse" THEN EmitLayers(locals.graphs, locals.multilayer)
    ELSE EmitFloors(locals.floors)

\* C25: once a cell's flags and same-layer neighbours are emitted, the
\* portal pass of parse and the vertical-linkage and room-overlay passes of
\* parse_image_folder leave them intact: every emitted cell is in the
\* returned graph with the same flags and at least the same neighbours, and
\* the only fields added are room and room_name.
C25_LaterPassesOnlyAdd ==
    (Returned("parse") \/ Returned("parse_image_folder")) =>
        \A k \in DOMAIN EmittedGraph :
            /\ k \in DOMAIN graph
            /\ DOMAIN EmittedGraph[k] \subseteq DOMAIN graph[k]
            /\ \A f \in DOMAIN EmittedGraph[k] \ {"nbrs"} :
                   graph[k][f] = EmittedGraph[k][f]
            /\ EmittedGraph[k].nbrs \subseteq graph[k].nbrs
            /\ DOMAIN graph[k] \ DOMAIN EmittedGraph[k]
                   \subseteq (IF call.op = "parse" THEN {} ELSE {"room", "room_name"})

\* A cell with a same-layer neighbour to which the portal pass added a
\* neighbour.
C25_Witness ==
    /\ Returned("parse")
    /\ \E k \in DOMAIN EmittedGraph :
          /\ EmittedGraph[k].nbrs # {}
          /\ EmittedGraph[k].nbrs # graph[k].nbrs

\* A cell with a same-floor neighbour that got a vertical link as well.
C25_FolderWitness ==
    /\ Returned("parse_image_folder")
    /\ \E k \in DOMAIN EmittedGraph :
          /\ EmittedGraph[k].nbrs # {}
          /\ EmittedGraph[k].nbrs # graph[k].nbrs

\* ---------------------------------------------------------------------
\* Neighbour sets are closed over the keys (Spec)

\* C26: in every graph returned by parse, parse_image or
\* parse_image_folder, every key in some cell's neighbour set is itself a
\* key of the graph, and no cell is its own neighbour.
C26_NeighboursAreKeys ==
    (pc = "done" /\ ret = "return") =>
        \A k \in DOMAIN graph :
            /\ graph[k].nbrs \subseteq DOMAIN graph
            /\ k \notin graph[k].nbrs

\* A text graph in which the portal pass made keys of its own, each the
\* neighbour of another.
C26_Witness ==
    /\ Returned("parse")
    /\ \E k \in DOMAIN graph :
          /\ k \notin DOMAIN EmittedGraph
          /\ graph[k].nbrs # {}
          /\ \E n \in graph[k].nbrs : k \in graph[n].nbrs

\* A folder graph in which the linkage made a key on a narrower floor.
C26_FolderWitness ==
    /\ Returned("parse_image_folder")
    /\ \E k \in DOMAIN graph :
          /\ k \notin DOMAIN EmittedGraph
          /\ graph[k].nbrs # {}

\* An image graph with neighbours.
C26_ImageWitness ==
    /\ Returned("parse_image")
    /\ \E k \in DOMAIN graph : graph[k].nbrs # {}

\* ---------------------------------------------------------------------
\* One flag per raster cell (Spec)

TenFlags == {"W", "S", "B", "F", "N", "P", "SD", "SU", "TD", "TU"}

\* The token each decoded cell of the finished raster call was classified to.
ClassifiedTokens ==
    IF call.op = "parse_image"
    THEN LET grid == TokenGrid(call.img, EffectivePal(call.palette))
         IN  [k \in (0..(Len(grid) - 1)) \X (0..(Len(grid[1]) - 1)) |->
                 grid[k[1] + 1][k[2] + 1]]
    ELSE [k \in FloorCells(locals.floors) |->
             locals.floors[k[1] + 1][k[2] + 1][k[3] + 1]]

\* C27: every cell of a graph returned by parse_image or parse_image_folder
\* has exactly one of the ten flags true, the flag of the token its tile was
\* classified to, whatever palette override the caller passed.
C27_ExactlyOneFlag ==
    (Returned("parse_image") \/ Returned("parse_image_folder")) =>
        \A k \in DOMAIN ClassifiedTokens :
            /\ k \in DOMAIN graph
            /\ { f \in TenFlags : graph[k][f] = 1 } = { ClassifiedTokens[k] }

\* ---------------------------------------------------------------------
\* A folder of one image against parse_image (Spec)

\* The floor images of the finished folder call.
PngFiles == SelectSeq(call.listing, IsPng)

\* What parse_image does with the only floor image of the folder, under the
\* palette override of the folder call.
SingleImage == ParseImageFile(PngFiles[1], call.palette)

\* C29: for a folder of one floor image and no room file, the graph
\* parse_image_folder returns has a cell (0,i,j) for every cell (i,j) of
\* parse_image on that image with the same palette override, and no other;
\* the two cells have the same ten flags, and (0,i2,j2) is a neighbour of
\* (0,i,j) exactly when (i2,j2) is a neighbour of (i,j).
C29_FolderRefinesImage ==
    ( /\ Returned("parse_image_folder")
      /\ Len(PngFiles) = 1
      /\ call.rooms = <<>> ) =>
        /\ SingleImage.ret = "return"
        /\ DOMAIN graph = { <<0, k[1], k[2]>> : k \in DOMAIN SingleImage.graph }
        /\ \A k \in DOMAIN SingleImage.graph :
               /\ \A f \in TenFlags :
                      graph[<<0, k[1], k[2]>>][f] = SingleImage.graph[k][f]
               /\ graph[<<0, k[1], k[2]>>].nbrs =
                      { <<0, n[1], n[2]>> : n \in SingleImage.graph[k].nbrs }

\* A folder of one image of several tiles, one of them classified TU under
\* an override that exchanges the colours of TD and TU.
C29_Witness ==
    /\ Returned("parse_image_folder")
    /\ Len(PngFiles) = 1
    /\ call.rooms = <<>>
    /\ call.palette # <<>>
    /\ Cardinality(DOMAIN graph) >= 2
    /\ \E k \in DOMAIN graph :
          /\ graph[k].TU = 1
          /\ PngFiles[1].px[<<k[3], k[2]>>] = cTD
          /\ graph[k].nbrs # {}

\* ---------------------------------------------------------------------
\* Multi-layer texts (SpecLayers)

\* The size of a text of layers: a line counts 1 and each cell 1.
MaxLayerText == 7

\* The cells of a text of layers: a cell of main tokens, a cell with a
\* portal token, and a blank cell.
LayerCells == { <<tN, tX>>, <<tZ1>>, BlankCell }

InitLayers ==
    /\ \E shape \in UNION { TextShapes(n) : n \in 0..MaxLayerText } :
           /\ \E k \in 1..Len(shape) : shape[k] = -1
           /\ \E cells \in [1..CellCount(shape, Len(shape)) -> LayerCells] :
                  call = [op |-> "parse", floor |-> TextOf(shape, cells)]
    /\ pc = "ready"
    /\ graph = <<>>
    /\ ret = "none"
    /\ locals = NoLocals
    /\ held = NoHeld

NextLayers == Parse

SpecLayers == InitLayers /\ [][NextLayers]_vars

\* The layer a line of the text belongs to: the number of layer markers up
\* to the line, less one; -1 for the lines before the first marker.
LayerOfLine(n) ==
    Cardinality({ m \in 1..n : call.floor[m].kind = "layer" }) - 1

NumMarkers == LayerOfLine(Len(call.floor)) + 1

\* The lines of layer k that hold at least one non-empty cell.
RowLines(k) ==
    { n \in 1..Len(call.floor) :
        /\ call.floor[n].kind = "row"
        /\ LayerOfLine(n) = k
        /\ NonEmptyCells(call.floor[n]) # <<>> }

\* The numbers of non-empty cells of the rows of layer k.
RowWidths(k) == { Len(NonEmptyCells(call.floor[n])) : n \in RowLines(k) }

NoPortalToken ==
    \A n \in 1..Len(call.floor) :
        \A s \in 1..Len(call.floor[n].cells) :
            \A t \in 1..Len(call.floor[n].cells[s]) :
                ~PortalPattern(call.floor[n].cells[s][t])

\* C30: for a text with layer markers, rectangular layers (of possibly
\* different shapes) and no portal token, parse returns a graph whose keys
\* are exactly the (k,i,j) with 0<=i<R_k, 0<=j<C_k, where the k-th marker
\* in file order introduces a block of R_k rows of C_k cells; the rows
\* before the first marker give no key, and a marker with an empty block
\* gives none but still takes its index.
C30_MultiLayerKeys ==
    ( /\ Done("parse")
      /\ NumMarkers >= 1
      /\ NoPortalToken
      /\ \A k \in 0..(NumMarkers - 1) : Cardinality(RowWidths(k)) <= 1 )
    => /\ ret = "return"
       /\ DOMAIN graph =
            UNION { { <<k, i, j>> :
                        i \in 0..(Cardinality(RowLines(k)) - 1),
                        j \in UNION { 0..(w - 1) : w \in RowWidths(k) } } :
                    k \in 0..(NumMarkers - 1) }

\* Two layers of different shapes, 1 x 2 and 1 x 1.
C30_Witness ==
    /\ Returned("parse")
    /\ NoPortalToken
    /\ NumMarkers = 2
    /\ DOMAIN graph = { <<0, 0, 0>>, <<0, 0, 1>>, <<1, 0, 0>> }

\* A marker with an empty block takes index 1 between layers 0 and 2.
C30_EmptyBlockWitness ==
    /\ Returned("parse")
    /\ NoPortalToken
    /\ NumMarkers = 3
    /\ DOMAIN graph = { <<0, 0, 0>>, <<2, 0, 0>> }

\* A row before the first marker gives no key.
C30_LeadingRowsWitness ==
    /\ Returned("parse")
    /\ NoPortalToken
    /\ RowLines(-1) # {}
    /\ DOMAIN graph = { <<0, 0, 0>>, <<0, 1, 0>> }

\* ---------------------------------------------------------------------
\* FloorParser.tostr and the round trip through it (SpecRoundTrip)

tW == <<"W">>

\* The cells of the texts whose graphs are exported: one flag, two flags, no
\* flag, and a portal token on a flagged cell.
RoundTripCells == { <<tN>>, <<tW, tN>>, <<tX>>, <<tN, tZ1>> }

\* The size of an exported text: a line counts 1 and each cell 1.
MaxRoundTrip == 5

\* ','.join([a for a in 'BNSFWP' if sq[a]])
RECURSIVE JoinComma(_)
JoinComma(names) ==
    IF names = <<>> THEN <<>>
    ELSE IF Len(names) = 1 THEN names
    ELSE <<names[1], ",">> \o JoinComma(Tail(names))

Att(sq) ==
    JoinComma(SelectSeq(<<"B", "N", "S", "F", "W", "P">>, LAMBDA a : sq[a] = 1))

\* '{:>4}'.format(att): right-aligned in four columns, longer text as it is.
PadLeft4(att) == [n \in 1..(4 - Len(att)) |-> " "] \o att

\* One line of tostr: the padded cells of row i, with nothing between them.
RowString(g, key, c) ==
    Concat([j \in 1..c |-> PadLeft4(Att(g[key[j]]))], 1)

\* str.strip()
RECURSIVE StripLeft(_)
StripLeft(s) ==
    IF s # <<>> /\ Head(s) = " " THEN StripLeft(Tail(s)) ELSE s

RECURSIVE StripRight(_)
StripRight(s) ==
    IF s # <<>> /\ s[Len(s)] = " " THEN StripRight(SubSeq(s, 1, Len(s) - 1)) ELSE s

Strip(s) == StripLeft(StripRight(s))

\* str.split(sep): the pieces of s between the occurrences of sep.
RECURSIVE SplitOn(_, _, _)
SplitOn(s, sep, piece) ==
    IF s = <<>> THEN << piece >>
    ELSE IF Head(s) = sep THEN << piece >> \o SplitOn(Tail(s), sep, <<>>)
    ELSE SplitOn(Tail(s), sep, Append(piece, Head(s)))

\* A line of characters as _parse_single_layer reads it: blank after
\* strip(), or cells between ';', each with its non-empty ','-parts.
LineOf(chars) ==
    IF Strip(chars) = <<>> THEN [kind |-> "row", cells |-> <<>>]
    ELSE LET sqs == SplitOn(chars, ";", <<>>)
         IN  [kind |-> "row",
              cells |-> [n \in 1..Len(sqs) |->
                  LET parts == SplitOn(Strip(sqs[n]), ",", <<>>)
                  IN  SelectSeq([p \in 1..Len(parts) |-> Strip(parts[p])],
                                LAMBDA p : p # <<>>)]]

SetMax(S) == CHOOSE x \in S : \A y \in S : y <= x

\* tostr(graph): [ret, text].  next(iter(graph)) raises StopIteration on an
\* empty graph.  The sample key has three components exactly when the graph
\* comes from a text of layers (in a single-layer graph cell (0,0) is the
\* first key); then layer 0 is shown.  Otherwise r and c are the largest
\* first and second components of all keys, plus one, and graph[(r_, c_)]
\* raises KeyError for a pair that is no key.  Every row ends in '\n', so
\* the text ends in an empty line.
Tostr(g) ==
    IF DOMAIN g = {} THEN [ret |-> "StopIteration", text |-> <<>>]
    ELSE
        LET layers == \A k \in DOMAIN g : Len(k) = 3
            shown  == IF layers THEN { k \in DOMAIN g : k[1] = 0 } ELSE DOMAIN g
            rowOf(k) == IF layers THEN k[2] ELSE k[1]
            colOf(k) == IF layers THEN k[3] ELSE k[2]
            r == SetMax({0} \cup { rowOf(k) : k \in shown }) + 1
            c == SetMax({0} \cup { colOf(k) : k \in shown }) + 1
            keyAt(i, j) == IF layers THEN <<0, i, j>> ELSE <<i, j>>
        IN  IF \E i \in 0..(r - 1) : \E j \in 0..(c - 1) : keyAt(i, j) \notin DOMAIN g
            THEN [ret |-> "KeyError", text |-> <<>>]
            ELSE [ret |-> "return",
                  text |-> [i \in 1..r |->
                      LineOf(RowString(g, [j \in 1..c |-> keyAt(i - 1, j - 1)], c))]
                           \o << LineOf(<<>>) >>]

InitRoundTrip ==
    /\ \E shape \in UNION { TextShapes(n) : n \in 0..MaxRoundTrip } :
           /\ \A k \in 1..Len(shape) : shape[k] # -1
           /\ \E cells \in [1..CellCount(shape, Len(shape)) -> RoundTripCells] :
                  call = [op |-> "parse", floor |-> TextOf(shape, cells)]
    /\ pc = "ready"
    /\ graph = <<>>
    /\ ret = "none"
    /\ locals = NoLocals
    /\ held = NoHeld

\* s = parser.tostr(g) on the graph the parse call returned.
CallTostr ==
    /\ pc = "done" /\ call.op = "parse" /\ ret = "return"
    /\ \E r \in {Tostr(graph)} :
           /\ ret' = r.ret
           /\ locals' = [op |-> "tostr", g |-> graph, text |-> r.text]
    /\ pc' = "exported"
    /\ UNCHANGED <<call, graph, held>>

\* parser.parse(s) on the text tostr returned.
Reparse ==
    /\ pc = "exported" /\ ret = "return"
    /\ \E r \in {ParseText(locals.text)} :
           /\ ret' = r.ret
           /\ graph' = IF r.ret = "return" THEN r.graph ELSE graph
           /\ held' = HeldAfter(held, [op |-> "parse", floor |-> locals.text], r)
    /\ locals' = [op |-> "reparse", g |-> locals.g, text |-> locals.text]
    /\ pc' = "reparsed"
    /\ UNCHANGED call

NextRoundTrip == Parse \/ CallTostr \/ Reparse

SpecRoundTrip == InitRoundTrip /\ [][NextRoundTrip]_vars

\* C22: for every graph g returned by parse on a single-layer text,
\* parse(tostr(g)) has the same key set as g and, for every cell, the same
\* W,S,B,F,N,P flags as g.
C22_RoundTrip ==
    pc = "reparsed" =>
        /\ ret = "return"
        /\ DOMAIN graph = DOMAIN locals.g
        /\ \A k \in DOMAIN graph :
               \A f \in {"W", "S", "B", "F", "N", "P"} :
                   graph[k][f] = locals.g[k][f]

\* The round trip of a graph of one column of flagged cells, which does
\* give the graph back.
C22_ColumnWitness ==
    /\ pc = "reparsed" /\ ret = "return"
    /\ DOMAIN locals.g = { <<0, 0>>, <<1, 0>> }
    /\ graph = locals.g

\* ---------------------------------------------------------------------
\* parse_image_folder pass by pass (SpecSteps)

\* The number of pixels in the floor images of a folder decoded step by step.
MaxStepPx == 3

\* No room file, or one for each of the two lowest floors.
StepRooms ==
    { <<>>,
      << << RoomLine("R1", "Lobby", 0, 0, 0, 1) >>,
         << RoomLine("R2", "Yard", 0, 0, 0, 0) >> >> }

InitSteps ==
    /\ \E widths \in UNION { FolderShapes(n) : n \in 0..MaxStepPx } :
           \E cols \in [1..PixelCount(widths, Len(widths)) -> FloorColours] :
               \E rooms \in StepRooms :
                   call = [op |-> "parse_image_folder",
                           listing |-> ListingOf(widths, cols, <<>>),
                           rooms |-> rooms, palette |-> <<>>]
    /\ pc = "ready"
    /\ graph = <<>>
    /\ ret = "none"
    /\ locals = NoLocals
    /\ held = NoHeld

\* Lines 254-301: the listing, the floor indices and the palette.  A call
\* that raises here ends; otherwise no floor is decoded yet.
StartFolder ==
    /\ pc = "ready" /\ call.op = "parse_image_folder"
    /\ \E files \in {SelectSeq(call.listing, IsPng)} :
          IF files = <<>> \/ \E k \in 1..Len(files) : FloorIndexFor(files[k]).raises
          THEN /\ ret' = IF files = <<>> THEN "FileNotFoundError" ELSE "ValueError"
               /\ locals' = [op |-> "parse_image_folder",
                             files_sorted |-> <<>>, floors |-> <<>>]
               /\ pc' = "done"
          ELSE /\ ret' = "none"
               /\ locals' = [op |-> "parse_image_folder",
                             files_sorted |-> SortedFiles(files, 1, <<>>),
                             pal |-> EffectivePal(call.palette),
                             st |-> [z \in 1..Len(files) |-> "todo"],
                             floors |-> <<>>, order |-> <<>>, graph |-> <<>>]
               /\ pc' = "classify"
    /\ UNCHANGED <<call, graph, held>>

\* The body of the first-pass loop for one floor, from Image.open to the
\* token grid.  The loop takes the floors one after the other in file
\* order; here any floor not yet begun may begin, and several may be under
\* way, which covers that order and every other schedule.
BeginFloor ==
    /\ pc = "classify"
    /\ \E z \in DOMAIN locals.st :
          /\ locals.st[z] = "todo"
          /\ locals' = [locals EXCEPT !.st[z] = "busy"]
    /\ UNCHANGED <<call, pc, graph, ret, held>>

\* floors[z] = grid: the floor is decoded and enters the dict.
FinishFloor ==
    /\ pc = "classify"
    /\ \E z \in DOMAIN locals.st :
          /\ locals.st[z] = "busy"
          /\ locals' = [locals EXCEPT
                 !.st[z] = "done",
                 !.floors = [d \in DOMAIN locals.floors \cup {z} |->
                                IF d = z THEN TokenGrid(locals.files_sorted[z], locals.pal)
                                ELSE locals.floors[d]],
                 !.order = Append(@, z - 1)]
    /\ UNCHANGED <<call, pc, graph, ret, held>>

\* Mutant of FirstPassOver: the later passes wait only until every floor
\* has begun.
FirstPassBegun(st) == \A z \in DOMAIN st : st[z] # "todo"

\* The first-pass loop has run to its end: every floor is decoded.
FirstPassOver(st) == \A z \in DOMAIN st : st[z] = "done"

\* The second pass and the vertical linkage, on the floors in the dict.
LinkFloors ==
    /\ pc = "classify"
    /\ FirstPassOver(locals.st)
    /\ locals' = [locals EXCEPT
           !.graph = AddEdges(EmitFloors(locals.floors), VerticalEdges(locals.floors))]
    /\ pc' = "overlay"
    /\ UNCHANGED <<call, graph, ret, held>>

\* for z in floors.keys(): the room files are applied floor by floor in the
\* order in which the floors entered the dict.
RECURSIVE OverlayInOrder(_, _, _, _)
OverlayInOrder(g, roomfiles, order, n) ==
    IF n > Len(order) THEN g
    ELSE OverlayInOrder(
            IF order[n] + 1 \in DOMAIN roomfiles
            THEN ApplyRooms(g, order[n], LoadRooms(roomfiles[order[n] + 1]), 1)
            ELSE g,
            roomfiles, order, n + 1)

\* The third pass, self.graph = dict(graph.items()) and the return.
OverlayFloors ==
    /\ pc = "overlay"
    /\ \E r \in {[ret |-> "return",
                  graph |-> OverlayInOrder(locals.graph, call.rooms, locals.order, 1)]} :
           /\ ret' = r.ret
           /\ graph' = r.graph
           /\ held' = HeldAfter(held, call, r)
    /\ pc' = "done"
    /\ UNCHANGED <<call, locals>>

NextSteps == StartFolder \/ BeginFloor \/ FinishFloor \/ LinkFloors \/ OverlayFloors

SpecSteps == InitSteps /\ [][NextSteps]_vars

\* C23: the vertical-linkage pass and the room-overlay pass start only
\* after every floor has finished tile classification, so no TD/TU link is
\* evaluated against a floor that is not decoded; and in whatever order, or
\* interleaving, the floors are classified, the graph returned is the one
\* the call returns when it takes them in file order.
C23_BarrierBeforeLinkage ==
    /\ (pc = "overlay" \/ Returned("parse_image_folder")) =>
           /\ \A z \in DOMAIN locals.st : locals.st[z] = "done"
           /\ DOMAIN locals.floors = 1..Len(locals.files_sorted)
    /\ Returned("parse_image_folder") =>
           graph = ParseFolder(call.listing, call.rooms, call.palette).graph

\* Three floors decoded top floor first, with a link between floors and a
\* room on each of the two lowest floors.
C23_Witness ==
    /\ Returned("parse_image_folder")
    /\ locals.order = <<2, 0, 1>>
    /\ CrossFloorEdges # {}
    /\ \E k \in DOMAIN graph : k[1] = 0 /\ "room" \in DOMAIN graph[k]
    /\ \E k \in DOMAIN graph : k[1] = 1 /\ "room" \in DOMAIN graph[k]

\* Two floors under way at once while the third is already decoded.
C23_InterleavedWitness ==
    /\ pc = "classify"
    /\ Cardinality({ z \in DOMAIN locals.st : locals.st[z] = "busy" }) = 2
    /\ Cardinality({ z \in DOMAIN locals.st : locals.st[z] = "done" }) = 1

=========================================================================
